---- MODULE Spec2Model ----
(***************************************************************************)
(* A model of django-daydreamer's view dispatch (daydreamer.views.core,    *)
(* daydreamer.views.behaviors.auth) and of its request handler             *)
(* (daydreamer.core.handlers.base.Handler).                                *)
(*                                                                         *)
(* Several specifications share this module.  SpecView runs one view       *)
(* dispatch at a time: the deny chain and the allow chain are evaluated,   *)
(* one handler is called, and deny(prefix) runs its raise, message and     *)
(* respond steps.  SpecConfig does the same for views whose attributes may *)
(* be missing or of a wrong type, SpecMethod for the HTTP method gates and *)
(* the behaviors of the allow phase.  SpecHandler runs one                 *)
(* Handler.get_response at a time, one middleware call or stage per step;  *)
(* SpecHandlerLive adds that a started get_response keeps taking steps.    *)
(* SpecThreads lets two threads of one Handler serve requests of different *)
(* URL configurations at once.  SpecUrl calls simplify_redirect once and   *)
(* again on its result.                                                    *)
(***************************************************************************)
EXTENDS Integers, Sequences, FiniteSets, TLC

VARIABLES
    \* ---- view dispatch (daydreamer.views.core) ----
    view,       \* the view instance: its composition and its attributes
    request,    \* the request the view is dispatching
    vpc,        \* position of the dispatch
    handler,    \* the handler dispatch() selected
    evaluated,  \* the deny participants whose test ran, in order
    executed,   \* the handlers called for this dispatch, in order
    messages,   \* the messages enqueued with django.contrib.messages
    response,   \* the response the handler returned
    raised,     \* the exception that left dispatch(), "None" if none
    events      \* the steps of deny(prefix) that acted, in order

vvars == <<view, request, vpc, handler, evaluated, executed, messages,
           response, raised, events>>

VARIABLES
    \* ---- request handler (daydreamer.core.handlers.base.Handler) ----
    hcfg,       \* the lengths of the handler's middleware lists
    hreq,       \* the request: whether its path resolves, its cached match
    hpc,        \* position of get_response()
    hidx,       \* the next entry of the middleware list being applied
    hresp,      \* the response passed from stage to stage
    hexc,       \* the exception propagating, NoExc if none
    hcaught,    \* the exceptions caught so far, with the catching block
    hcalled,    \* per middleware list, the outcome of each call made
    hcount,     \* how often the resolver, the view, the signal and the
                \* 500 handler were invoked
    hlog        \* the stages entered, in order

hvars == <<hcfg, hreq, hpc, hidx, hresp, hexc, hcaught, hcalled, hcount,
           hlog>>

VARIABLES
    \* ---- process-wide configuration (django.conf.settings) ----
    settings

VARIABLES
    \* ---- one use of daydreamer.core.urlresolvers.simplify_redirect ----
    ucall       \* its arguments and the URLs returned so far

VARIABLES
    \* ---- requests served by threads of one process ----
    threads,    \* per thread: the request it serves and how far it got
    urlconfs    \* django.core.urlresolvers._urlconfs: per thread, the
                \* urlconf set_urlconf() stored for it

tvars == <<threads, urlconfs>>

vars == <<vvars, hvars, settings, ucall, tvars>>

----------------------------------------------------------------------------
(* Bounds of the model. *)

\* The longest sequence of access behaviors composed in front of a base.
MaxChain == 2

\* The longest middleware list of the handler.
MaxMiddleware == 2

----------------------------------------------------------------------------
(* Python values. *)

\* None and the empty string are the falsy strings.
Truthy(v) == v \notin {"None", ""}

\* str.lower() on the HTTP method names the model uses.
lower(m) ==
    CASE m \in {"GET", "get", "Get"} -> "get"
      [] m \in {"POST", "post", "Post"} -> "post"
      [] m \in {"PUT", "put"} -> "put"
      [] m \in {"HEAD", "head"} -> "head"
      [] OTHER -> m

----------------------------------------------------------------------------
(* URLs.  A URL string is written down by its components: the scheme, the *)
(* host, the path, the query parameters, and the delimiters it carries in   *)
(* front of an empty component ("?" in "/next/?").  Two strings are equal   *)
(* when all of these are.                                                   *)

UrlString(scheme, netloc, path, query, delims) ==
    [scheme |-> scheme, netloc |-> netloc, path |-> path, query |-> query,
     delims |-> delims]

\* A URL string without needless delimiters.
Url(scheme, netloc, path, query) ==
    UrlString(scheme, netloc, path, query, {})

NoUrl == Url("", "", "None", <<>>)

Relative(path) == Url("", "", path, <<>>)

\* The values of settings.LOGIN_URL: a path (Django's default, which is not
\* the name of a URL pattern) or the name of a URL pattern.
LoginUrls == {Relative("/accounts/login/"), Relative("login")}

\* django.core.urlresolvers.reverse(): the URL of a named pattern, NoUrl for
\* NoReverseMatch.
reverse(viewname) ==
    IF viewname = Relative("login") THEN Relative("/login/") ELSE NoUrl

\* django.contrib.auth.REDIRECT_FIELD_NAME
REDIRECT_FIELD_NAME == "next"

\* django.contrib.messages.WARNING
WARNING == 30

\* The values of <prefix>_message_level: None (0) and messages.ERROR.
MessageLevels == {0, 40}

----------------------------------------------------------------------------
(* Users, requests and views. *)

\* request.user: AnonymousUser, or a User with any is_active and is_staff.
AnonymousUser ==
    [is_authenticated |-> FALSE, is_active |-> FALSE, is_staff |-> FALSE]

Users ==
    {AnonymousUser} \cup
    {[is_authenticated |-> TRUE, is_active |-> a, is_staff |-> s] :
        a \in BOOLEAN, s \in BOOLEAN}

Methods == {"GET", "POST"}

\* The access behaviors of daydreamer.views.behaviors.auth, by their prefix.
Behaviors == {"login_required", "active_required", "staff_required"}

\* The default http_method_names of django.views.generic.View.
DefaultMethodNames ==
    {"get", "post", "put", "patch", "delete", "head", "options", "trace"}

\* The attributes <prefix>_raise ... <prefix>_redirect_next_name as the
\* behavior classes declare them.
DefaultDenial ==
    [raise |-> FALSE, exception |-> "None", message |-> "None",
     message_level |-> 0, message_tags |-> "None",
     redirect_url |-> NoUrl, redirect_next_url |-> NoUrl,
     redirect_next_name |-> REDIRECT_FIELD_NAME]

\* The handlers a dispatch can select.
NoHandler == [kind |-> "None", arg |-> ""]
DeniedHandler(prefix) == [kind |-> "denied", arg |-> prefix]
VerbHandler(name) == [kind |-> "verb", arg |-> name]
MethodNotAllowed == [kind |-> "http_method_not_allowed", arg |-> ""]
CustomDeny == [kind |-> "custom_deny", arg |-> ""]
CustomAllow == [kind |-> "custom_allow", arg |-> ""]

\* The responses a handler can return.
\* headers holds the names of the caching headers set on the response.
NoResponse ==
    [status |-> 0, content |-> "None", url |-> NoUrl, headers |-> {}]
HttpResponse(content) ==
    [status |-> 200, content |-> content, url |-> NoUrl, headers |-> {}]
HttpResponseNotAllowed ==
    [status |-> 405, content |-> "", url |-> NoUrl, headers |-> {}]
HttpResponseRedirect(url) ==
    [status |-> 302, content |-> "", url |-> url, headers |-> {}]
HttpResponseNotModified ==
    [status |-> 304, content |-> "", url |-> NoUrl, headers |-> {}]
HttpResponsePreconditionFailed ==
    [status |-> 412, content |-> "", url |-> NoUrl, headers |-> {}]

\* The base classes a view is composed over.  "View" stands for the
\* composition (HttpMethodDeny, HttpMethodAllow); "CustomDeny" and
\* "CustomAllow" are Deny and Allow with get_deny_handler / get_allow_handler
\* overridden to return a handler of the view's own.
Bases ==
    {"Null", "Deny", "Allow", "CustomDeny", "CustomAllow",
     "HttpMethodDeny", "HttpMethodAllow", "View"}

\* The classes that put Deny, respectively Allow, into the view's MRO.
HasDeny(v) ==
    \/ Len(v.behaviors) > 0
    \/ v.base \in {"Deny", "CustomDeny", "HttpMethodDeny", "View"}

HasAllow(v) ==
    \/ v.base \in {"Allow", "CustomAllow", "HttpMethodAllow", "View"}
    \/ v.wrappers # <<>>

\* A composition that resolves the base's get_deny_handler first.
DenyChain_base_first(v) ==
    (CASE v.base \in {"HttpMethodDeny", "View"} -> <<"http_method_deny">>
       [] v.base = "CustomDeny" -> <<"custom_deny">>
       [] OTHER -> <<>>) \o
    v.behaviors

\* The classes defining get_deny_handler, in method resolution order: the
\* behaviors as composed, then the base.
DenyChain(v) ==
    v.behaviors \o
    (CASE v.base \in {"HttpMethodDeny", "View"} -> <<"http_method_deny">>
       [] v.base = "CustomDeny" -> <<"custom_deny">>
       [] OTHER -> <<>>)

----------------------------------------------------------------------------
(* daydreamer.views.behaviors.auth: the access tests. *)

\* A test that takes no account of the login_required attribute.
login_required_test_always(v, r) == r.user.is_authenticated

login_required_test(v, r) ==
    ~v.required["login_required"] \/ r.user.is_authenticated

active_required_test(v, r) ==
    ~v.required["active_required"] \/ r.user.is_active

staff_required_test(v, r) ==
    ~v.required["staff_required"] \/ r.user.is_staff

(* daydreamer.views.behaviors.auth: the groups and permissions
   requirements.  The value of groups_required or permissions_required is
   any Python value: None, an int, a string, a Group object or a tuple. *)

PyNone == [kind |-> "None", n |-> 0, name |-> "", items |-> <<>>]
PyInt(n) == [kind |-> "int", n |-> n, name |-> "", items |-> <<>>]
PyStr(name) == [kind |-> "str", n |-> 0, name |-> name, items |-> <<>>]
\* A django.contrib.auth.models.Group object with the primary key pk.
PyGroup(pk) == [kind |-> "Group", n |-> pk, name |-> "", items |-> <<>>]
PyTuple(items) == [kind |-> "tuple", n |-> 0, name |-> "", items |-> items]

\* bool(value)
PyTruthy(value) ==
    CASE value.kind = "None" -> FALSE
      [] value.kind = "int" -> value.n # 0
      [] value.kind = "str" -> value.name # ""
      [] value.kind = "tuple" -> value.items # <<>>
      [] OTHER -> TRUE

\* The auth_group table: the primary key of each group name.
GroupTable == [name \in {"editors", "authors"} |->
                    IF name = "editors" THEN 1 ELSE 2]

\* A get_groups_required() without the check that every name was resolved.
get_groups_required_unchecked(v) ==
    LET groups == IF PyTruthy(v.groups_required) THEN v.groups_required
                  ELSE PyTuple(<<>>)
        items == IF groups.kind \in {"str", "Group"} THEN <<groups>>
                 ELSE groups.items
        named == {items[i].name :
                    i \in {j \in DOMAIN items : items[j].kind = "str"}}
        actual == {items[i].n :
                    i \in {j \in DOMAIN items : items[j].kind = "Group"}}
        resolved == {GroupTable[name] : name \in named \cap DOMAIN GroupTable}
    IN  IF groups.kind \notin {"str", "Group", "tuple"}
        THEN [error |-> "ValueError", groups |-> {}]
        ELSE IF \E i \in DOMAIN items : items[i].kind \notin {"str", "Group"}
        THEN [error |-> "ValueError", groups |-> {}]
        ELSE [error |-> "None", groups |-> resolved \cup actual]

\* GroupsRequired.get_groups_required(): the primary keys of the required
\* groups, or the exception raised.  A falsy value stands for no groups; a
\* single name or Group is taken as a tuple of one; a value of another type
\* raises ValueError; a name with no row in the table raises
\* ImproperlyConfigured.
get_groups_required(v) ==
    LET groups == IF PyTruthy(v.groups_required) THEN v.groups_required
                  ELSE PyTuple(<<>>)
        items == IF groups.kind \in {"str", "Group"} THEN <<groups>>
                 ELSE groups.items
        named == {items[i].name :
                    i \in {j \in DOMAIN items : items[j].kind = "str"}}
        actual == {items[i].n :
                    i \in {j \in DOMAIN items : items[j].kind = "Group"}}
        resolved == {GroupTable[name] : name \in named \cap DOMAIN GroupTable}
    IN  IF groups.kind \notin {"str", "Group", "tuple"}
        THEN [error |-> "ValueError", groups |-> {}]
        ELSE IF \E i \in DOMAIN items : items[i].kind \notin {"str", "Group"}
        THEN [error |-> "ValueError", groups |-> {}]
        ELSE IF Cardinality(named) # Cardinality(resolved)
        THEN [error |-> "ImproperlyConfigured", groups |-> {}]
        ELSE [error |-> "None", groups |-> resolved \cup actual]

\* not groups or user.groups.filter(pk__in=groups).count() == len(groups)
groups_required_test(v, r) ==
    LET groups == get_groups_required(v).groups
    IN  groups = {} \/ groups \subseteq r.user.groups

\* PermissionsRequired.get_permissions_required(): the permission names, or
\* the exception raised.  Only the type of the values is checked.
get_permissions_required(v) ==
    LET permissions == IF PyTruthy(v.permissions_required)
                       THEN v.permissions_required
                       ELSE PyTuple(<<>>)
        items == IF permissions.kind = "str" THEN <<permissions>>
                 ELSE permissions.items
    IN  IF permissions.kind \notin {"str", "tuple"}
        THEN [error |-> "ValueError", permissions |-> {}]
        ELSE IF \E i \in DOMAIN items : items[i].kind # "str"
        THEN [error |-> "ValueError", permissions |-> {}]
        ELSE [error |-> "None",
              permissions |-> {items[i].name : i \in DOMAIN items}]

\* User.has_perms(perm_list): an active superuser has every permission.
has_perms(user, perm_list) ==
    \/ user.is_active /\ user.is_superuser
    \/ perm_list \subseteq user.perms

\* not permissions or user.has_perms(permissions)
permissions_required_test(v, r) ==
    LET permissions == get_permissions_required(v).permissions
    IN  permissions = {} \/ has_perms(r.user, permissions)

\* The behaviors whose requirement is a value to be resolved.
RequirementBehaviors == {"groups_required", "permissions_required"}

\* The exception a participant's test raises, "None" if it raises none.
ParticipantError(p, v, r) ==
    CASE p = "groups_required" -> get_groups_required(v).error
      [] p = "permissions_required" -> get_permissions_required(v).error
      [] OTHER -> "None"

(* daydreamer.views.core.http: the HTTP method gate. *)

\* A test that takes no account of http_method_names.
http_method_deny_test_defined(v, r) == lower(r.method) \in v.defined

\* defined holds the names of the view's callable attributes.
http_method_deny_test(v, r) ==
    LET method == lower(r.method)
    IN  method \in v.http_method_names /\ method \in v.defined

\* The test of one participant of the deny chain.
ParticipantTest(p, v, r) ==
    CASE p = "login_required" -> login_required_test(v, r)
      [] p = "active_required" -> active_required_test(v, r)
      [] p = "staff_required" -> staff_required_test(v, r)
      [] p = "groups_required" -> groups_required_test(v, r)
      [] p = "permissions_required" -> permissions_required_test(v, r)
      [] p = "http_method_deny" -> http_method_deny_test(v, r)
      [] OTHER -> FALSE

\* The handler a participant returns when its test fails.
ParticipantHandler(p) ==
    CASE p \in Behaviors \cup RequirementBehaviors -> DeniedHandler(p)
      [] p = "http_method_deny" -> MethodNotAllowed
      [] OTHER -> CustomDeny

\* get_deny_handler() from the i-th class of the chain on: the class returns
\* its handler when its test fails and defers to super() otherwise;
\* Deny.get_deny_handler() ends the chain with None.  The result carries the
\* participants whose test was evaluated.
RECURSIVE get_deny_handler_from(_, _, _)
get_deny_handler_from(v, r, i) ==
    IF i > Len(DenyChain(v))
    THEN [handler |-> NoHandler, evaluated |-> <<>>]
    ELSE LET p == DenyChain(v)[i]
         IN  IF ~ParticipantTest(p, v, r)
             THEN [handler |-> ParticipantHandler(p), evaluated |-> <<p>>]
             ELSE LET rest == get_deny_handler_from(v, r, i + 1)
                  IN  [handler |-> rest.handler,
                       evaluated |-> <<p>> \o rest.evaluated]

\* A chain that asks super() first: the last failing participant wins and
\* every participant is evaluated.
RECURSIVE get_deny_handler_super_first_from(_, _, _)
get_deny_handler_super_first_from(v, r, i) ==
    IF i > Len(DenyChain(v))
    THEN [handler |-> NoHandler, evaluated |-> <<>>]
    ELSE LET p == DenyChain(v)[i]
             rest == get_deny_handler_super_first_from(v, r, i + 1)
         IN  [handler |->
                IF rest.handler # NoHandler THEN rest.handler
                ELSE IF ~ParticipantTest(p, v, r) THEN ParticipantHandler(p)
                ELSE NoHandler,
              evaluated |-> <<p>> \o rest.evaluated]

get_deny_handler_super_first(v, r) ==
    get_deny_handler_super_first_from(v, r, 1)

get_deny_handler(v, r) == get_deny_handler_from(v, r, 1)

\* The exception that leaves get_deny_handler(): that of the first
\* participant whose test raises, when every participant before it passes.
get_deny_handler_error(v, r) ==
    LET chain == DenyChain(v)
        failing == {k \in DOMAIN chain :
                    /\ ParticipantError(chain[k], v, r) # "None"
                    /\ \A j \in 1..(k - 1) :
                        /\ ParticipantError(chain[j], v, r) = "None"
                        /\ ParticipantTest(chain[j], v, r)}
    IN  IF failing = {} THEN [error |-> "None", evaluated |-> <<>>]
        ELSE LET k == CHOOSE k \in failing : TRUE
             IN  [error |-> ParticipantError(chain[k], v, r),
                  evaluated |-> SubSeq(chain, 1, k)]

\* An attribute of the view that is set to a truthy value but cannot be
\* called.
Attribute(name) == [kind |-> "attribute", arg |-> name]

\* A get_allow_handler() that applies the test of the deny-style gate.
get_allow_handler_gated(v, r) ==
    CASE v.base \in {"HttpMethodAllow", "View"} \/ v.wrappers # <<>> ->
            IF http_method_deny_test(v, r)
            THEN VerbHandler(lower(r.method))
            ELSE MethodNotAllowed
      [] v.base = "CustomAllow" -> CustomAllow
      [] OTHER -> NoHandler

\* A get_allow_handler() that only returns listed methods' handlers.
get_allow_handler_listed(v, r) ==
    CASE v.base \in {"HttpMethodAllow", "View"} \/ v.wrappers # <<>> ->
            IF lower(r.method) \in v.defined \cap v.http_method_names
            THEN VerbHandler(lower(r.method))
            ELSE IF lower(r.method) \in v.noncallable
            THEN Attribute(lower(r.method))
            ELSE MethodNotAllowed
      [] v.base = "CustomAllow" -> CustomAllow
      [] OTHER -> NoHandler

\* get_allow_handler(): HttpMethodAllow returns the attribute named after
\* the lower-cased method when it is truthy, callable or not, and
\* http_method_not_allowed otherwise; Allow returns None.  The behaviors of
\* the allow phase are subclasses of HttpMethodAllow.
get_allow_handler(v, r) ==
    CASE v.base \in {"HttpMethodAllow", "View"} \/ v.wrappers # <<>> ->
            IF lower(r.method) \in v.defined
            THEN VerbHandler(lower(r.method))
            ELSE IF lower(r.method) \in v.noncallable
            THEN Attribute(lower(r.method))
            ELSE MethodNotAllowed
      [] v.base = "CustomAllow" -> CustomAllow
      [] OTHER -> NoHandler

\* Null.dispatch, Allow.dispatch and Deny.dispatch, chained through super()
\* in method resolution order: the handler that dispatch() calls.
\* A Null.dispatch that looks for the verb handler itself.
Null_dispatch_verb(v, r) ==
    IF lower(r.method) \in v.defined
    THEN VerbHandler(lower(r.method)) ELSE MethodNotAllowed

Null_dispatch(v, r) == MethodNotAllowed

\* daydreamer.views.generic.base.SecuredView.dispatch on a View: the
\* not-allowed handler, else the allowed handler.
SecuredView_dispatch(v, r) ==
    IF ~http_method_deny_test(v, r)
    THEN MethodNotAllowed
    ELSE VerbHandler(lower(r.method))

Allow_dispatch(v, r) ==
    IF get_allow_handler(v, r) # NoHandler
    THEN get_allow_handler(v, r)
    ELSE Null_dispatch(v, r)

\* A Deny.dispatch that prefers the allow handler.
Deny_dispatch_allow_first(v, r) ==
    IF HasAllow(v) /\ get_allow_handler(v, r) # NoHandler
    THEN get_allow_handler(v, r)
    ELSE IF get_deny_handler(v, r).handler # NoHandler
    THEN get_deny_handler(v, r).handler
    ELSE Null_dispatch(v, r)

Deny_dispatch(v, r) ==
    IF get_deny_handler(v, r).handler # NoHandler
    THEN get_deny_handler(v, r).handler
    ELSE IF HasAllow(v) THEN Allow_dispatch(v, r) ELSE Null_dispatch(v, r)

\* The first dispatch() in method resolution order.  The classes of
\* daydreamer.views.core come before daydreamer.views.generic.View, which
\* does not derive from them, and none of their dispatch() methods defers
\* beyond Null.
dispatch(v, r) ==
    CASE HasDeny(v) -> Deny_dispatch(v, r)
      [] HasAllow(v) -> Allow_dispatch(v, r)
      [] v.base = "GenericView" -> SecuredView_dispatch(v, r)
      [] OTHER -> Null_dispatch(v, r)

----------------------------------------------------------------------------
(* daydreamer.views.core.behaviors.Denial: the denial settings. *)

UrlTruthy(u) == u # NoUrl /\ u # Relative("")

get_denial_attr(v, prefix, attr) == v.denial[prefix][attr]

\* getattr(self, "<prefix>_<attr>") raises AttributeError: the view has no
\* such attribute.
denial_attr_absent(v, prefix, attr) == attr \in v.absent

get_denial_raise(v, prefix) == get_denial_attr(v, prefix, "raise")

\* A get_denial_exception() without the PermissionDenied default.
get_denial_exception_no_default(v, prefix) ==
    get_denial_attr(v, prefix, "exception")

get_denial_exception(v, prefix) ==
    IF Truthy(get_denial_attr(v, prefix, "exception"))
    THEN get_denial_attr(v, prefix, "exception")
    ELSE "PermissionDenied"

get_denial_message(v, prefix) == get_denial_attr(v, prefix, "message")

\* A get_denial_message_level() that always answers WARNING.
get_denial_message_level_fixed(v, prefix) == WARNING

get_denial_message_level(v, prefix) ==
    IF get_denial_attr(v, prefix, "message_level") # 0
    THEN get_denial_attr(v, prefix, "message_level")
    ELSE WARNING

get_denial_message_tags(v, prefix) ==
    IF Truthy(get_denial_attr(v, prefix, "message_tags"))
    THEN get_denial_attr(v, prefix, "message_tags")
    ELSE ""

\* A get_denial_redirect_url() that does not fall back on the raw login URL.
get_denial_redirect_url_no_fallback(v, prefix, s) ==
    LET redirect_url == get_denial_attr(v, prefix, "redirect_url")
    IN  IF UrlTruthy(redirect_url) THEN redirect_url
        ELSE reverse(s.LOGIN_URL)

\* get_denial_redirect_url(): <prefix>_redirect_url, or
\* reverse(settings.LOGIN_URL) when it is falsy, or settings.LOGIN_URL itself
\* when reverse() raises NoReverseMatch.
get_denial_redirect_url(v, prefix, s) ==
    LET redirect_url == get_denial_attr(v, prefix, "redirect_url")
    IN  IF UrlTruthy(redirect_url) THEN redirect_url
        ELSE IF reverse(s.LOGIN_URL) # NoUrl THEN reverse(s.LOGIN_URL)
        ELSE s.LOGIN_URL

\* request.build_absolute_uri()
build_absolute_uri(r) ==
    Url(IF r.secure THEN "https" ELSE "http", r.host, r.path, <<>>)

get_denial_redirect_next_url(v, prefix, r) ==
    IF UrlTruthy(get_denial_attr(v, prefix, "redirect_next_url"))
    THEN get_denial_attr(v, prefix, "redirect_next_url")
    ELSE build_absolute_uri(r)

get_denial_redirect_next_name(v, prefix) ==
    get_denial_attr(v, prefix, "redirect_next_name")

\* The attribute lookups of each step of deny(prefix) in the order they are
\* made: whether one of them raises AttributeError.
raise_step_attribute_error(v, prefix) ==
    \/ denial_attr_absent(v, prefix, "raise")
    \/ /\ get_denial_raise(v, prefix)
       /\ denial_attr_absent(v, prefix, "exception")

message_step_attribute_error(v, prefix) ==
    \/ denial_attr_absent(v, prefix, "message")
    \/ /\ Truthy(get_denial_message(v, prefix))
       /\ \/ denial_attr_absent(v, prefix, "message_level")
          \/ denial_attr_absent(v, prefix, "message_tags")

respond_step_attribute_error(v, prefix) ==
    \/ denial_attr_absent(v, prefix, "redirect_url")
    \/ denial_attr_absent(v, prefix, "redirect_next_name")
    \/ /\ Truthy(get_denial_redirect_next_name(v, prefix))
       /\ denial_attr_absent(v, prefix, "redirect_next_url")

\* A redirect response that only allows web URLs.
allowed_schemes_web == {"http", "https"}

\* django.http.HttpResponseRedirect.allowed_schemes
allowed_schemes == {"http", "https", "ftp"}

\* HttpResponseRedirect(redirect_to) raises DisallowedRedirect, a
\* SuspiciousOperation, for a URL with a scheme that is not allowed.
redirect_disallowed(redirect_to) ==
    /\ redirect_to.scheme # ""
    /\ redirect_to.scheme \notin allowed_schemes

(* urlparse *)

\* urlparse.urlparse(url): the components of the string.  A delimiter in
\* front of an empty query leaves no trace: the query is empty either way.
urlparse(url) ==
    [scheme |-> url.scheme, netloc |-> url.netloc, path |-> url.path,
     query |-> url.query]

\* The paths that begin with "//", with the host and the path a string that
\* begins with them is read as.
NetworkPaths ==
    [p \in {"//testserver/next/"} |->
        [netloc |-> "testserver", path |-> "/next/"]]

\* urlparse.urlunparse(parts): the string put together from the components.
\* A delimiter is written only in front of a component that is not empty.
\* With no scheme and no host the string is the path followed by the query,
\* so a path beginning with "//" yields a string whose first segment reads
\* as a host.
urlunparse(parts) ==
    IF parts.scheme = "" /\ parts.netloc = ""
            /\ parts.path \in DOMAIN NetworkPaths
    THEN UrlString("", NetworkPaths[parts.path].netloc,
                   NetworkPaths[parts.path].path, parts.query, {})
    ELSE UrlString(parts.scheme, parts.netloc, parts.path, parts.query, {})

(* daydreamer.core.urlresolvers *)

\* The request argument left out: request=None.
NoRequest ==
    [method |-> "", user |-> AnonymousUser, secure |-> FALSE,
     host |-> "", path |-> "", has_messages |-> FALSE, conditional |-> "none"]

\* A simplify_redirect() that strips the scheme and host whenever they are
\* the source's or the request's.
simplify_redirect_either(redirect, source, r) ==
    LET empty == <<"", "">>
        req == IF r = NoRequest THEN empty
               ELSE <<IF r.secure THEN "https" ELSE "http", r.host>>
        red == urlparse(redirect)
        src == urlparse(source)
        red2 == <<red.scheme, red.netloc>>
        src2 == <<src.scheme, src.netloc>>
    IN  IF red2 # empty /\ (red2 = src2 \/ red2 = req)
        THEN urlunparse([red EXCEPT !.scheme = "", !.netloc = ""])
        ELSE urlunparse(red)

\* simplify_redirect(redirect, source, request): both URLs are parsed; the
\* scheme and host are stripped from redirect when they are the source's,
\* or the request's and the source has none; the result is put together
\* again with urlunparse().
simplify_redirect(redirect, source, r) ==
    LET empty == <<"", "">>
        req == IF r = NoRequest THEN empty
               ELSE <<IF r.secure THEN "https" ELSE "http", r.host>>
        red == urlparse(redirect)
        src == urlparse(source)
        red2 == <<red.scheme, red.netloc>>
        src2 == <<src.scheme, src.netloc>>
    IN  IF red2 # empty /\ (red2 = src2 \/ (red2 = req /\ src2 = empty))
        THEN urlunparse([red EXCEPT !.scheme = "", !.netloc = ""])
        ELSE urlunparse(red)

\* update_query(url, {name: value}): the URL is parsed, the parameter is
\* added to its query and the URL is put together again.  The value stands
\* for its percent-encoded form, which names it uniquely.
update_query(url, name, value) ==
    urlunparse([urlparse(url) EXCEPT
        !.query = Append(@, [name |-> name, value |-> value])])

\* A get_denial_full_redirect_url() that appends the parameter whenever the
\* name is not None.
get_denial_full_redirect_url_not_none(v, prefix, r, s) ==
    LET redirect_url == get_denial_redirect_url(v, prefix, s)
        next_name == get_denial_redirect_next_name(v, prefix)
    IN  IF next_name # "None"
        THEN update_query(redirect_url, next_name,
                simplify_redirect(
                    get_denial_redirect_next_url(v, prefix, r),
                    redirect_url, r))
        ELSE redirect_url

\* A get_denial_full_redirect_url() that passes the next URL on as it is.
get_denial_full_redirect_url_unsimplified(v, prefix, r, s) ==
    LET redirect_url == get_denial_redirect_url(v, prefix, s)
        next_name == get_denial_redirect_next_name(v, prefix)
    IN  IF Truthy(next_name)
        THEN update_query(redirect_url, next_name,
                get_denial_redirect_next_url(v, prefix, r))
        ELSE redirect_url

get_denial_full_redirect_url(v, prefix, r, s) ==
    LET redirect_url == get_denial_redirect_url(v, prefix, s)
        next_name == get_denial_redirect_next_name(v, prefix)
    IN  IF Truthy(next_name)
        THEN update_query(redirect_url, next_name,
                simplify_redirect(
                    get_denial_redirect_next_url(v, prefix, r),
                    redirect_url, r))
        ELSE redirect_url

----------------------------------------------------------------------------
(* The inputs of a dispatch: a view and a request. *)

\* The sequences of distinct access behaviors composed in front of a base.
BehaviorSeqs ==
    {q \in UNION {[1..k -> Behaviors] : k \in 0..MaxChain} :
        \A i, j \in DOMAIN q : i # j => q[i] # q[j]}

InChain(b, q) == \E i \in DOMAIN q : q[i] = b

\* The verb handlers a view defines, with its http_method_names.
HandlerAttrs ==
    {[defined |-> {"get"}, names |-> DefaultMethodNames],
     [defined |-> {"get", "post"}, names |-> DefaultMethodNames],
     [defined |-> {"get", "post"}, names |-> {"get"}]}

\* The values the denial attributes of one prefix take.
DenialSettings ==
    [raise : BOOLEAN,
     exception : {"None", "CustomException"},
     message : {"None", "", "Please log in"},
     message_level : MessageLevels,
     message_tags : {"None", "tag"},
     redirect_url : {NoUrl, Relative("/denied/")},
     redirect_next_url : {NoUrl},
     redirect_next_name : {"None", REDIRECT_FIELD_NAME}]

Requests ==
    [method : Methods, user : Users, secure : {FALSE},
     host : {"testserver"}, path : {"/resource/"}, has_messages : {TRUE}, conditional : {"none"}]

\* Views of every composition, with the declared denial attributes.
ChainViews ==
    {[behaviors |-> q, base |-> b, required |-> req,
      defined |-> h.defined, http_method_names |-> h.names,
      absent |-> {},
      noncallable |-> {}, wrappers |-> <<>>,
      denial |-> [p \in Behaviors |-> DefaultDenial]] :
        q \in BehaviorSeqs, b \in Bases,
        req \in [Behaviors -> BOOLEAN], h \in HandlerAttrs}

ValidView(v) ==
    /\ v.base = "Null" => v.behaviors = <<>>
    /\ \A b \in Behaviors : ~InChain(b, v.behaviors) => v.required[b]
    /\ ~(HasAllow(v) \/ v.base \in {"HttpMethodDeny"}) =>
            (v.defined = {"get"} /\ v.http_method_names = DefaultMethodNames)

\* Views of one access behavior over the base View, with every setting of
\* the behavior's denial attributes.
DenialViews ==
    {[behaviors |-> <<b>>, base |-> "View",
      required |-> [p \in Behaviors |-> TRUE],
      defined |-> {"get"}, http_method_names |-> DefaultMethodNames,
      absent |-> {},
      noncallable |-> {}, wrappers |-> <<>>,
      denial |-> [p \in Behaviors |->
                    IF p = b THEN d ELSE DefaultDenial]] :
        b \in Behaviors, d \in DenialSettings}

\* The values of <prefix>_redirect_url: None, the empty string, a path, a
\* path with a bare "?", and absolute URLs on the request's host and on
\* another one.
RedirectUrls ==
    {NoUrl, Relative(""), Relative("/denied/"),
     UrlString("", "", "/denied/", <<>>, {"?"}),
     Url("http", "testserver", "/denied/", <<>>),
     Url("https", "sso.example.com", "/login/", <<>>)}

\* The values of <prefix>_redirect_next_url: None, a path, a path with a
\* bare "?", and absolute URLs on the request's host and on the other one.
NextUrls ==
    {NoUrl, Relative("/next/"),
     UrlString("", "", "/next/", <<>>, {"?"}),
     Url("http", "testserver", "/next/", <<>>),
     Url("https", "sso.example.com", "/next/", <<>>)}

\* The values of <prefix>_redirect_next_name.
NextNames == {"None", "", REDIRECT_FIELD_NAME, "back"}

\* Login-required views over the base View with every setting of the URL
\* attributes, the others as declared.
UrlDenialViews ==
    {[behaviors |-> <<"login_required">>, base |-> "View",
      required |-> [p \in Behaviors |-> TRUE],
      defined |-> {"get"}, http_method_names |-> DefaultMethodNames,
      absent |-> {},
      noncallable |-> {}, wrappers |-> <<>>,
      denial |-> [p \in Behaviors |->
                    IF p = "login_required"
                    THEN [DefaultDenial EXCEPT
                            !.redirect_url = u,
                            !.redirect_next_url = n,
                            !.redirect_next_name = m]
                    ELSE DefaultDenial]] :
        u \in RedirectUrls, n \in NextUrls, m \in NextNames}

\* Anonymous GET requests over http and over https.
UrlRequests ==
    [method : {"GET"}, user : {AnonymousUser}, secure : BOOLEAN,
     host : {"testserver"}, path : {"/resource/"}, has_messages : {TRUE}, conditional : {"none"}]

DispatchInputs ==
    {<<v, r>> \in ChainViews \X Requests : ValidView(v)} \cup
    {<<v, r>> \in DenialViews \X Requests :
        r.user \in {AnonymousUser,
            [is_authenticated |-> TRUE, is_active |-> TRUE,
             is_staff |-> TRUE]}} \cup
    (UrlDenialViews \X UrlRequests)

\* The attributes deny(prefix) reads, <prefix>_<name> each.
DenialAttrNames ==
    {"raise", "exception", "message", "message_level", "message_tags",
     "redirect_url", "redirect_next_url", "redirect_next_name"}

\* The values of <prefix>_redirect_url of a view that may be mis-configured:
\* None, a path, an ftp URL and a javascript URL.
ConfigRedirectUrls ==
    {NoUrl, Relative("/denied/"),
     Url("ftp", "files.example.com", "/denied/", <<>>),
     Url("javascript", "", "void(0)", <<>>)}

\* Views of one access behavior over the base View whose class may lack one
\* of the denial attributes or name a redirect URL of any scheme.
ConfigViews ==
    {[behaviors |-> <<b>>, base |-> "View",
      required |-> [p \in Behaviors |-> TRUE],
      defined |-> {"get"}, http_method_names |-> DefaultMethodNames,
      absent |-> a,
      noncallable |-> {}, wrappers |-> <<>>,
      denial |-> [p \in Behaviors |->
                    IF p = b
                    THEN [DefaultDenial EXCEPT
                            !.raise = x, !.message = m,
                            !.redirect_url = u,
                            !.redirect_next_name = n]
                    ELSE DefaultDenial]] :
        b \in Behaviors,
        a \in {{}} \cup {{n} : n \in DenialAttrNames},
        x \in BOOLEAN, m \in {"None", "Please log in"},
        u \in ConfigRedirectUrls, n \in {"None", REDIRECT_FIELD_NAME}}

\* Requests with and without the messages middleware applied.
ConfigRequests ==
    [method : {"GET"},
     user : {AnonymousUser,
             [is_authenticated |-> TRUE, is_active |-> TRUE,
              is_staff |-> TRUE]},
     secure : {FALSE}, host : {"testserver"}, path : {"/resource/"},
     has_messages : BOOLEAN, conditional : {"none"}]

\* The values of groups_required: unset, ints, names of groups that exist
\* and that do not, Group objects, and tuples of these.
GroupsRequiredValues ==
    {PyNone, PyInt(0), PyInt(1), PyStr("editors"), PyStr("ghosts"),
     PyGroup(1),
     PyTuple(<<PyStr("editors"), PyGroup(2)>>),
     PyTuple(<<PyInt(1), PyInt(1)>>),
     PyTuple(<<PyStr("ghosts"), PyStr("phantoms")>>),
     PyTuple(<<PyStr("editors"), PyStr("ghosts")>>)}

\* The auth_permission table, as "<app_label>.<codename>".
PermissionTable == {"auth.change_user", "auth.add_user"}

\* The values of permissions_required: unset, ints, names of permissions
\* that exist and that do not, and tuples of these.
PermissionsRequiredValues ==
    {PyNone, PyInt(0), PyInt(1), PyStr("auth.change_user"),
     PyStr("auth.no_such_permission"),
     PyTuple(<<PyInt(1), PyInt(1)>>),
     PyTuple(<<PyStr("auth.change_user"), PyStr("auth.add_user")>>)}

\* GroupsRequired or PermissionsRequired over the base View, with every
\* value of the requirement.
RequirementViews ==
    {[behaviors |-> <<b>>, base |-> "View",
      required |-> [p \in Behaviors |-> TRUE],
      defined |-> {"get"}, http_method_names |-> DefaultMethodNames,
      absent |-> {},
      noncallable |-> {}, wrappers |-> <<>>,
      groups_required |-> IF b = "groups_required" THEN g ELSE PyNone,
      permissions_required |->
            IF b = "permissions_required" THEN g ELSE PyNone,
      denial |-> [p \in Behaviors \cup RequirementBehaviors |->
                    IF p = b
                    THEN [DefaultDenial EXCEPT !.raise = x, !.message = m]
                    ELSE DefaultDenial]] :
        b \in RequirementBehaviors,
        g \in GroupsRequiredValues \cup PermissionsRequiredValues,
        x \in BOOLEAN, m \in {"None", "Please log in"}}

RequirementView(v) ==
    \/ /\ v.behaviors = <<"groups_required">>
       /\ v.groups_required \in GroupsRequiredValues
    \/ /\ v.behaviors = <<"permissions_required">>
       /\ v.permissions_required \in PermissionsRequiredValues

\* Users with groups and permissions: anonymous, a member of one group with
\* one permission, a member of both with both, and an active superuser.
RequirementUsers ==
    {[is_authenticated |-> FALSE, is_active |-> FALSE, is_staff |-> FALSE,
      is_superuser |-> FALSE, groups |-> {}, perms |-> {}],
     [is_authenticated |-> TRUE, is_active |-> TRUE, is_staff |-> FALSE,
      is_superuser |-> FALSE, groups |-> {1},
      perms |-> {"auth.change_user"}],
     [is_authenticated |-> TRUE, is_active |-> TRUE, is_staff |-> FALSE,
      is_superuser |-> FALSE, groups |-> {1, 2},
      perms |-> {"auth.change_user", "auth.add_user"}],
     [is_authenticated |-> TRUE, is_active |-> TRUE, is_staff |-> TRUE,
      is_superuser |-> TRUE, groups |-> {}, perms |-> {}]}

RequirementRequests ==
    [method : Methods, user : RequirementUsers,
     secure : {FALSE}, host : {"testserver"}, path : {"/resource/"},
     has_messages : {TRUE}, conditional : {"none"}]

ConfigInputs ==
    (ConfigViews \X ConfigRequests) \cup
    ({v \in RequirementViews : RequirementView(v)} \X RequirementRequests)

\* The attributes of a view named after HTTP methods: the callable ones
\* (as_view() has set head to get) and the ones that are set to a value
\* that cannot be called.
MethodAttrs ==
    {[defined |-> {}, noncallable |-> {}],
     [defined |-> {"get", "head"}, noncallable |-> {}],
     [defined |-> {"get", "head"}, noncallable |-> {"post"}],
     [defined |-> {"get", "head", "post"}, noncallable |-> {}]}

\* The values of http_method_names: django's default and those of
\* RequireGET, RequirePOST and RequireSafe.
MethodNames ==
    {DefaultMethodNames, {"get"}, {"post"}, {"get", "head"}}

\* Views made of the HTTP method gates: the classes of
\* daydreamer.views.core on their own, and HttpMethodDeny (RequireGET ...)
\* composed in front of them and of daydreamer.views.generic.View.
GateViews ==
    {[behaviors |-> q, base |-> b,
      required |-> [p \in Behaviors |-> TRUE],
      defined |-> a.defined, http_method_names |-> n,
      absent |-> {},
      noncallable |-> a.noncallable, wrappers |-> <<>>,
      denial |-> [p \in Behaviors |-> DefaultDenial]] :
        q \in {<<>>, <<"http_method_deny">>},
        b \in {"Null", "Deny", "HttpMethodDeny", "HttpMethodAllow",
               "View", "GenericView"},
        a \in MethodAttrs, n \in MethodNames}

GateRequests ==
    [method : {"GET", "POST", "PUT", "HEAD", "get"},
     user : {AnonymousUser}, secure : {FALSE},
     host : {"testserver"}, path : {"/resource/"},
     has_messages : {TRUE}, conditional : {"none"}]

\* Views of one access behavior, required or not, with and without
\* <prefix>_raise and <prefix>_message.
AccessViews ==
    {[behaviors |-> <<b>>, base |-> c,
      required |-> [p \in Behaviors |-> IF p = b THEN req ELSE TRUE],
      defined |-> d, http_method_names |-> DefaultMethodNames,
      absent |-> {},
      noncallable |-> {}, wrappers |-> <<>>,
      denial |-> [p \in Behaviors |->
                    IF p = b
                    THEN [DefaultDenial EXCEPT !.raise = x, !.message = m]
                    ELSE DefaultDenial]] :
        b \in Behaviors,
        c \in {"Deny", "HttpMethodAllow", "View", "GenericView"},
        req \in BOOLEAN,
        d \in {{"get", "head"}, {"get", "head", "post"}},
        x \in BOOLEAN, m \in {"None", "Please log in"}}

AccessRequests ==
    [method : Methods,
     user : {AnonymousUser,
             [is_authenticated |-> TRUE, is_active |-> TRUE,
              is_staff |-> TRUE]},
     secure : {FALSE}, host : {"testserver"}, path : {"/resource/"},
     has_messages : {TRUE}, conditional : {"none"}]

\* The behaviors of the allow phase, by the decorator each wraps the allow
\* handler in: Condition with condition_etag or condition_last_modified,
\* CachePage with cache_page, CacheControl with a control set, NeverCache.
AllowWrappers ==
    {"condition_etag", "condition_last_modified", "cache_page",
     "cache_control", "never_cache"}

\* Views of one allow-phase behavior over the composition of the core
\* gates and over daydreamer.views.generic.View.
WrapperViews ==
    {[behaviors |-> <<>>, base |-> c,
      required |-> [p \in Behaviors |-> TRUE],
      defined |-> {"get", "head"},
      http_method_names |-> DefaultMethodNames,
      absent |-> {},
      noncallable |-> {}, wrappers |-> <<w>>,
      denial |-> [p \in Behaviors |-> DefaultDenial]] :
        w \in AllowWrappers, c \in {"View", "GenericView"}}

\* Requests with the conditional headers: If-None-Match that matches the
\* resource's ETag, If-Match that does not, If-Modified-Since that is not
\* older than the resource.
WrapperRequests ==
    [method : {"GET", "POST", "PUT"},
     user : {AnonymousUser}, secure : {FALSE},
     host : {"testserver"}, path : {"/resource/"},
     has_messages : {TRUE},
     conditional : {"none", "if_none_match_hit", "if_match_miss",
                    "if_modified_since_hit"}]

MethodInputs ==
    (GateViews \X GateRequests) \cup
    (AccessViews \X AccessRequests) \cup
    (WrapperViews \X WrapperRequests)

NoView ==
    [behaviors |-> <<>>, base |-> "Null",
     required |-> [p \in Behaviors |-> TRUE],
     defined |-> {}, http_method_names |-> {},
     absent |-> {},
     noncallable |-> {}, wrappers |-> <<>>,
     denial |-> [p \in Behaviors |-> DefaultDenial]]

\* No call of simplify_redirect() under way.
NoCall ==
    [redirect |-> NoUrl, source |-> NoUrl, request |-> NoRequest,
     results |-> <<>>]

----------------------------------------------------------------------------
(* daydreamer.core.handlers.base.Handler: values. *)

\* The exceptions a stage can raise: the three the handler maps to a
\* response, the process-exit signal, and any other exception.
ExcKinds ==
    {"Http404", "PermissionDenied", "SuspiciousOperation", "SystemExit",
     "Exception"}

\* isinstance(exception, Exception): SystemExit derives from BaseException.
IsException(kind) == kind # "SystemExit"

\* An exception: the class of the model it falls in, the stage that raised
\* it and, where the handler itself raises it, its Python type and the parts
\* of its message.
NoExc == [kind |-> "None", stage |-> "", type |-> "", message |-> <<>>]
Exc(kind, stage) ==
    [kind |-> kind, stage |-> stage, type |-> "", message |-> <<>>]
Error(type, message, stage) ==
    [kind |-> "Exception", stage |-> stage, type |-> type,
     message |-> message]

\* A response in the pipeline: where it was made, whether it has a render()
\* method and was rendered, and the middleware and fixes applied to it.
HNone ==
    [origin |-> "None", render |-> FALSE, rendered |-> FALSE,
     tpl |-> 0, mw |-> 0, fixed |-> FALSE]

HResponse(origin, render) ==
    [origin |-> origin, render |-> render, rendered |-> FALSE,
     tpl |-> 0, mw |-> 0, fixed |-> FALSE]

NoCalls ==
    [request |-> <<>>, view |-> <<>>, exception |-> <<>>,
     template_response |-> <<>>, response |-> <<>>]

NoCounts == [resolve |-> 0, view |-> 0, signal |-> 0, uncaught |-> 0]

\* The callables a URL pattern can name: a function, or an instance of a
\* class that defines __call__.
ViewKinds == {"function", "callable_class"}

\* A resolver match, the triple (view, args, kwargs); id tells the triple
\* objects apart.  NoMatch is request.resolver_match missing or None.
NoMatch == [id |-> 0, view |-> "None"]

\* The request: whether its path resolves and to what view, the match cached
\* on it, and the matches resolve_view() returned for it, in order.
NoHRequest ==
    [resolves |-> FALSE, view |-> "None", resolver_match |-> NoMatch,
     returned |-> <<>>]

HRequests ==
    {[resolves |-> TRUE, view |-> k, resolver_match |-> NoMatch,
      returned |-> <<>>] : k \in ViewKinds} \cup
    {NoHRequest}

\* get_resolver_match(): resolver.resolve() builds a new triple.  n is the
\* number of triples built for the request so far.
get_resolver_match(rq, n) == [id |-> n + 1, view |-> rq.view]

\* A resolve_view() that asks the resolver on every call.
resolve_view_uncached(rq, count) ==
    IF rq.resolves
    THEN LET match == get_resolver_match(rq, count.resolve)
         IN  [request |-> [rq EXCEPT !.resolver_match = match,
                                     !.returned = Append(@, match)],
              count |-> [count EXCEPT !.resolve = @ + 1],
              raised |-> FALSE]
    ELSE [request |-> rq,
          count |-> [count EXCEPT !.resolve = @ + 1],
          raised |-> TRUE]

\* resolve_view(): get_resolver_match() is called when the request has no
\* cached match, and its result is cached on the request; the cached match
\* is returned.  resolver.resolve() raises Resolver404, an Http404, for a
\* path that matches no pattern.
resolve_view(rq, count) ==
    IF rq.resolver_match = NoMatch
    THEN IF rq.resolves
         THEN LET match == get_resolver_match(rq, count.resolve)
              IN  [request |-> [rq EXCEPT !.resolver_match = match,
                                          !.returned = Append(@, match)],
                   count |-> [count EXCEPT !.resolve = @ + 1],
                   raised |-> FALSE]
         ELSE [request |-> rq,
               count |-> [count EXCEPT !.resolve = @ + 1],
               raised |-> TRUE]
    ELSE [request |-> [rq EXCEPT !.returned = Append(@, rq.resolver_match)],
          count |-> count,
          raised |-> FALSE]

HandlerIdle ==
    /\ hreq = NoHRequest
    /\ hpc = "idle"
    /\ hidx = 0
    /\ hresp = HNone
    /\ hexc = NoExc
    /\ hcaught = <<>>
    /\ hcalled = NoCalls
    /\ hcount = NoCounts
    /\ hlog = <<>>

NoMiddleware ==
    [request |-> 0, view |-> 0, exception |-> 0, template_response |-> 0,
     response |-> 0]

\* The middleware lists load_middleware() builds: every middleware class
\* of the settings defines all five methods, so the lists are equally long.
\* (An entry that returns None, or returns the response it was given, acts
\* as an absent one.)
MiddlewareLists ==
    {[request |-> n, view |-> n, exception |-> n, template_response |-> n,
      response |-> n] : n \in 0..MaxMiddleware}

----------------------------------------------------------------------------
(* The URL configurations of a process and the threads that serve its      *)
(* requests.  django.core.urlresolvers keeps the urlconf set_urlconf()     *)
(* was given per thread; reverse() without a urlconf argument reads the    *)
(* one of the calling thread.                                              *)

Threads == {"t1", "t2"}

\* settings.ROOT_URLCONF, the urlconf a request may carry when it reaches
\* the handler, and the one a request middleware may set.
ROOT_URLCONF == "root.urls"
RequestUrlconf == "site.urls"
MiddlewareUrlconf == "mobile.urls"

\* RegexURLResolver(r'^/', urlconf): the view resolve(path) returns, <<>>
\* for Resolver404, and the handlers resolve404() ... resolve400() return.
\* Every urlconf has its own view for "/page/" and its own handlers.
resolver_resolve(urlconf, path) ==
    IF path = "/page/" THEN <<urlconf, "page">> ELSE <<>>

resolver_handler(urlconf, status) == <<urlconf, "handler", status>>

\* django.core.urlresolvers.reverse(viewname) under a urlconf.
reverse_in(urlconf, viewname) == <<urlconf, "reverse", viewname>>

\* A set_urlconf() that stores the urlconf for the whole process.
set_urlconf_process_wide(confs, t, urlconf) ==
    [x \in DOMAIN confs |-> urlconf]

\* set_urlconf(urlconf) called by thread t, and get_urlconf() with the
\* fallback reverse() applies.
set_urlconf(confs, t, urlconf) == [confs EXCEPT ![t] = urlconf]

get_urlconf(confs, t) ==
    IF confs[t] = "None" THEN ROOT_URLCONF ELSE confs[t]

\* The requests a thread serves: the path, the urlconf attribute the request
\* arrives with ("None" when it has none), the urlconf a request middleware
\* sets on it ("None" when none does), and what the resolved view does:
\* answer, deny with a redirect to the reversed login URL, or raise.
ThreadRequests ==
    [path : {"/page/", "/missing/"},
     urlconf : {"None", RequestUrlconf},
     middleware_urlconf : {"None", MiddlewareUrlconf},
     view : {"ok", "login_required", "PermissionDenied",
             "SuspiciousOperation"}]

NoThreadRequest ==
    [path |-> "", urlconf |-> "None", middleware_urlconf |-> "None",
     view |-> "None"]

NoThreadResponse == [status |-> 0, from |-> <<>>]

ThreadIdle ==
    [pc |-> "idle", input |-> NoThreadRequest, urlconf |-> "None",
     resolver |-> "None", resolver_match |-> <<>>,
     response |-> NoThreadResponse]

ThreadsIdle ==
    /\ threads = [t \in Threads |-> ThreadIdle]
    /\ urlconfs = [t \in Threads |-> "None"]

\* get_response() up to the request middleware: get_resolver() reads the
\* request's urlconf attribute, stores it for the thread and builds the
\* resolver.
thread_get_resolver(rq, confs, t) ==
    LET urlconf == IF rq.urlconf = "None" THEN ROOT_URLCONF ELSE rq.urlconf
    IN  [thread |-> [pc |-> "request_middleware", input |-> rq,
                     urlconf |-> rq.urlconf, resolver |-> urlconf,
                     resolver_match |-> <<>>,
                     response |-> NoThreadResponse],
         urlconfs |-> set_urlconf(confs, t, urlconf)]

\* apply_request_middleware(): a middleware may set request.urlconf.
thread_request_middleware(th) ==
    [th EXCEPT !.pc = "resolve_view",
               !.urlconf = IF th.input.middleware_urlconf = "None"
                           THEN @ ELSE th.input.middleware_urlconf]

\* resolve_view(): the resolver built by get_resolver() resolves the path
\* and the match is cached on the request; Resolver404 goes to
\* handle_not_found(), which asks the same resolver for its handler.
thread_resolve_view(th) ==
    LET match == resolver_resolve(th.resolver, th.input.path)
    IN  IF match = <<>>
        THEN [th EXCEPT !.pc = "done",
                        !.response =
                            [status |-> 404,
                             from |-> resolver_handler(th.resolver, 404)]]
        ELSE [th EXCEPT !.pc = "view", !.resolver_match = match]

\* apply_view(): the view answers, redirects to the login URL reversed under
\* the urlconf of the thread, or raises an exception that
\* generate_response() maps with the resolver's handler.
thread_apply_view(th, confs, t) ==
    [th EXCEPT
        !.pc = "done",
        !.response =
            CASE th.input.view = "ok" ->
                    [status |-> 200, from |-> th.resolver_match]
              [] th.input.view = "login_required" ->
                    [status |-> 302,
                     from |-> reverse_in(get_urlconf(confs, t), "login")]
              [] th.input.view = "PermissionDenied" ->
                    [status |-> 403,
                     from |-> resolver_handler(th.resolver, 403)]
              [] OTHER ->
                    [status |-> 400,
                     from |-> resolver_handler(th.resolver, 400)]]

\* get_response(rq) run to its end by a thread that is the only one.
get_response_alone(rq) ==
    LET t == CHOOSE x \in Threads : TRUE
        first == thread_get_resolver(rq, [x \in Threads |-> "None"], t)
        resolved == thread_resolve_view(
                        thread_request_middleware(first.thread))
    IN  IF resolved.pc = "done" THEN resolved
        ELSE thread_apply_view(resolved, first.urlconfs, t)

----------------------------------------------------------------------------
(* The dispatch of one request by a view. *)

ViewIdle ==
    /\ view = NoView
    /\ request = NoRequest
    /\ vpc = "idle"
    /\ handler = NoHandler
    /\ evaluated = <<>>
    /\ executed = <<>>
    /\ messages = <<>>
    /\ response = NoResponse
    /\ raised = "None"
    /\ events = <<>>

InitView ==
    /\ ucall = NoCall
    /\ ThreadsIdle
    /\ hcfg = NoMiddleware
    /\ HandlerIdle
    /\ view = NoView
    /\ request = NoRequest
    /\ vpc = "idle"
    /\ handler = NoHandler
    /\ evaluated = <<>>
    /\ executed = <<>>
    /\ messages = <<>>
    /\ response = NoResponse
    /\ raised = "None"
    /\ events = <<>>
    /\ settings \in [LOGIN_URL : LoginUrls, DEBUG : {FALSE}]

\* View.dispatch(request): the deny chain, then the allow chain, select the
\* handler.
Dispatch ==
    /\ vpc = "idle"
    /\ \E in \in DispatchInputs :
        LET v == in[1]
            r == in[2]
        IN  /\ view' = v
            /\ request' = r
            /\ handler' = dispatch(v, r)
            /\ evaluated' = IF HasDeny(v)
                            THEN get_deny_handler(v, r).evaluated
                            ELSE <<>>
    /\ vpc' = "call"
    /\ UNCHANGED <<executed, messages, response, raised, events, settings, hvars, ucall, tvars>>

\* The handler comes from get_allow_handler(): no deny handler was
\* returned and the view has an allow phase.
FromAllow(v, r) ==
    /\ HasAllow(v)
    /\ HasDeny(v) => get_deny_handler(v, r).handler = NoHandler

WithHeaders(resp, names) == [resp EXCEPT !.headers = @ \cup names]

\* The decorators of django.views.decorators.http and .cache that the
\* behaviors of the allow phase wrap the allow handler in; resp is the
\* response of the wrapped handler.
\*   condition(etag_func): 304 or 412 without calling the handler when the
\*     request's If-None-Match matches or its If-Match does not; ETag is set
\*     on whatever response is returned.
\*   condition(last_modified_func): 304 to a GET whose If-Modified-Since is
\*     not older; Last-Modified is set on whatever response is returned.
\*   cache_page(): the headers are patched on a 200 response to GET or HEAD.
\*   cache_control(), never_cache(): the headers are patched on every
\*     response.
allow_wrapper(w, r, resp) ==
    CASE w = "condition_etag" ->
            WithHeaders(
                IF r.conditional = "if_none_match_hit"
                THEN IF r.method \in {"GET", "HEAD"}
                     THEN HttpResponseNotModified
                     ELSE HttpResponsePreconditionFailed
                ELSE IF r.conditional = "if_match_miss"
                THEN HttpResponsePreconditionFailed
                ELSE resp,
                {"ETag"})
      [] w = "condition_last_modified" ->
            WithHeaders(
                IF r.conditional = "if_modified_since_hit" /\ r.method = "GET"
                THEN HttpResponseNotModified
                ELSE resp,
                {"Last-Modified"})
      [] w = "cache_page" ->
            IF resp.status = 200 /\ r.method \in {"GET", "HEAD"}
            THEN WithHeaders(resp,
                    {"Last-Modified", "Expires", "Cache-Control"})
            ELSE resp
      [] w = "cache_control" -> WithHeaders(resp, {"Cache-Control"})
      [] w = "never_cache" ->
            WithHeaders(resp, {"Last-Modified", "Expires", "Cache-Control"})
      [] OTHER -> resp

\* The allow handler as the behaviors hand it on: each get_allow_handler()
\* wraps the handler its super() returned, the first class outermost.
RECURSIVE allow_wrappers(_, _, _)
allow_wrappers(ws, r, resp) ==
    IF ws = <<>> THEN resp
    ELSE allow_wrapper(Head(ws), r, allow_wrappers(Tail(ws), r, resp))

\* The response of a handler that is not a denial.
handler_response(h) ==
    CASE h.kind = "verb" -> HttpResponse("OK")
      [] h.kind = "http_method_not_allowed" -> HttpResponseNotAllowed
      [] OTHER -> HttpResponse(h.kind)

\* dispatch() calls the selected handler with the request.  A handler from
\* the allow phase is called through its wrappers; an attribute that is not
\* callable raises TypeError.
CallHandler ==
    /\ vpc = "call"
    /\ executed' = Append(executed, handler)
    /\ CASE handler.kind = "denied" ->
                /\ vpc' = "deny_raise"
                /\ UNCHANGED <<response, raised>>
          [] handler.kind = "attribute" ->
                /\ vpc' = "done"
                /\ raised' = "TypeError"
                /\ UNCHANGED response
          [] OTHER ->
                /\ vpc' = "done"
                /\ response' =
                    IF FromAllow(view, request)
                    THEN allow_wrappers(view.wrappers, request,
                                        handler_response(handler))
                    ELSE handler_response(handler)
                /\ UNCHANGED raised
    /\ UNCHANGED <<view, request, handler, evaluated, messages,
                   events, settings, hvars, ucall, tvars>>

\* A raise step that also raises when only <prefix>_exception is set.
denial_raise_exception_coupled ==
    /\ vpc = "deny_raise"
    /\ IF raise_step_attribute_error(view, handler.arg)
       THEN /\ raised' = "AttributeError"
            /\ vpc' = "done"
            /\ UNCHANGED events
       ELSE IF \/ get_denial_raise(view, handler.arg)
               \/ Truthy(get_denial_attr(view, handler.arg, "exception"))
       THEN /\ raised' = get_denial_exception(view, handler.arg)
            /\ events' = Append(events, "raise")
            /\ vpc' = "done"
       ELSE /\ vpc' = "deny_message"
            /\ UNCHANGED <<raised, events>>
    /\ UNCHANGED <<view, request, handler, evaluated, executed, messages,
                   response, settings, hvars, ucall, tvars>>

\* deny(prefix), first step: denial_raise_exception(prefix).  Looking up
\* an attribute the view does not have raises AttributeError.
denial_raise_exception ==
    /\ vpc = "deny_raise"
    /\ IF raise_step_attribute_error(view, handler.arg)
       THEN /\ raised' = "AttributeError"
            /\ vpc' = "done"
            /\ UNCHANGED events
       ELSE IF get_denial_raise(view, handler.arg)
       THEN /\ raised' = get_denial_exception(view, handler.arg)
            /\ events' = Append(events, "raise")
            /\ vpc' = "done"
       ELSE /\ vpc' = "deny_message"
            /\ UNCHANGED <<raised, events>>
    /\ UNCHANGED <<view, request, handler, evaluated, executed, messages,
                   response, settings, hvars, ucall, tvars>>

\* A message step that enqueues every message that is not None.
denial_enqueue_message_not_none ==
    /\ vpc = "deny_message"
    /\ LET message == get_denial_message(view, handler.arg)
       IN  IF message_step_attribute_error(view, handler.arg)
           THEN /\ raised' = "AttributeError"
                /\ vpc' = "done"
                /\ UNCHANGED <<messages, events>>
           ELSE IF message # "None" /\ ~request.has_messages
           THEN /\ raised' = "MessageFailure"
                /\ vpc' = "done"
                /\ UNCHANGED <<messages, events>>
           ELSE IF message # "None"
           THEN /\ messages' = Append(messages,
                    [level |-> get_denial_message_level(view, handler.arg),
                     message |-> message,
                     extra_tags |->
                        get_denial_message_tags(view, handler.arg)])
                /\ events' = Append(events, "message")
                /\ vpc' = "deny_respond"
                /\ UNCHANGED raised
           ELSE /\ vpc' = "deny_respond"
                /\ UNCHANGED <<messages, events, raised>>
    /\ UNCHANGED <<view, request, handler, evaluated, executed, response,
                   settings, hvars, ucall, tvars>>

\* deny(prefix), second step: denial_enqueue_message(prefix).
\* messages.add_message() raises MessageFailure on a request the messages
\* middleware has not prepared.
denial_enqueue_message ==
    /\ vpc = "deny_message"
    /\ LET message == get_denial_message(view, handler.arg)
       IN  IF message_step_attribute_error(view, handler.arg)
           THEN /\ raised' = "AttributeError"
                /\ vpc' = "done"
                /\ UNCHANGED <<messages, events>>
           ELSE IF Truthy(message) /\ ~request.has_messages
           THEN /\ raised' = "MessageFailure"
                /\ vpc' = "done"
                /\ UNCHANGED <<messages, events>>
           ELSE IF Truthy(message)
           THEN /\ messages' = Append(messages,
                    [level |-> get_denial_message_level(view, handler.arg),
                     message |-> message,
                     extra_tags |->
                        get_denial_message_tags(view, handler.arg)])
                /\ events' = Append(events, "message")
                /\ vpc' = "deny_respond"
                /\ UNCHANGED raised
           ELSE /\ vpc' = "deny_respond"
                /\ UNCHANGED <<messages, events, raised>>
    /\ UNCHANGED <<view, request, handler, evaluated, executed, response,
                   settings, hvars, ucall, tvars>>

\* A respond step that falls back on the declared value of an attribute
\* the view does not have.
denial_respond_defaults ==
    /\ vpc = "deny_respond"
    /\ IF redirect_disallowed(
            get_denial_full_redirect_url(view, handler.arg, request,
                                         settings))
       THEN /\ raised' = "DisallowedRedirect"
            /\ UNCHANGED <<response, events>>
       ELSE /\ response' = HttpResponseRedirect(
                    get_denial_full_redirect_url(view, handler.arg, request,
                                                 settings))
            /\ events' = Append(events, "respond")
            /\ UNCHANGED raised
    /\ vpc' = "done"
    /\ UNCHANGED <<view, request, handler, evaluated, executed, messages,
                   settings, hvars, ucall, tvars>>

\* deny(prefix), third step: denial_respond(prefix).  The URL is built from
\* the view's attributes and handed to HttpResponseRedirect, which refuses a
\* scheme that is not allowed.
denial_respond ==
    /\ vpc = "deny_respond"
    /\ IF respond_step_attribute_error(view, handler.arg)
       THEN /\ raised' = "AttributeError"
            /\ UNCHANGED <<response, events>>
       ELSE IF redirect_disallowed(
            get_denial_full_redirect_url(view, handler.arg, request,
                                         settings))
       THEN /\ raised' = "DisallowedRedirect"
            /\ UNCHANGED <<response, events>>
       ELSE /\ response' = HttpResponseRedirect(
                    get_denial_full_redirect_url(view, handler.arg, request,
                                                 settings))
            /\ events' = Append(events, "respond")
            /\ UNCHANGED raised
    /\ vpc' = "done"
    /\ UNCHANGED <<view, request, handler, evaluated, executed, messages,
                   settings, hvars, ucall, tvars>>

\* The dispatch is over; the view serves the next request.
Return ==
    /\ vpc = "done"
    /\ view' = NoView
    /\ request' = NoRequest
    /\ vpc' = "idle"
    /\ handler' = NoHandler
    /\ evaluated' = <<>>
    /\ executed' = <<>>
    /\ messages' = <<>>
    /\ response' = NoResponse
    /\ raised' = "None"
    /\ events' = <<>>
    /\ UNCHANGED <<settings, hvars, ucall, tvars>>

\* View.dispatch(request) on a view that may be mis-configured: an
\* exception raised by a test of the deny chain leaves dispatch() before a
\* handler is selected.
DispatchConfig ==
    /\ vpc = "idle"
    /\ \E in \in ConfigInputs :
        LET v == in[1]
            r == in[2]
        IN  /\ view' = v
            /\ request' = r
            /\ IF get_deny_handler_error(v, r).error # "None"
               THEN /\ raised' = get_deny_handler_error(v, r).error
                    /\ evaluated' = get_deny_handler_error(v, r).evaluated
                    /\ handler' = NoHandler
                    /\ vpc' = "done"
               ELSE /\ handler' = dispatch(v, r)
                    /\ evaluated' = get_deny_handler(v, r).evaluated
                    /\ vpc' = "call"
                    /\ UNCHANGED raised
    /\ UNCHANGED <<executed, messages, response, events, settings,
                   hvars, ucall, tvars>>

\* View.dispatch(request) on the views of the HTTP method gates, of one
\* access behavior and of one allow-phase behavior.
DispatchMethod ==
    /\ vpc = "idle"
    /\ \E in \in MethodInputs :
        LET v == in[1]
            r == in[2]
        IN  /\ view' = v
            /\ request' = r
            /\ handler' = dispatch(v, r)
            /\ evaluated' = IF HasDeny(v)
                            THEN get_deny_handler(v, r).evaluated
                            ELSE <<>>
    /\ vpc' = "call"
    /\ UNCHANGED <<executed, messages, response, raised, events, settings,
                   hvars, ucall, tvars>>

NextView ==
    \/ Dispatch
    \/ CallHandler
    \/ denial_raise_exception
    \/ denial_enqueue_message
    \/ denial_respond
    \/ Return

SpecView == InitView /\ [][NextView]_vars

----------------------------------------------------------------------------
(* Properties of the view dispatch. *)

Dispatched == vpc # "idle"

\* The first participant of the deny chain whose test fails, 0 if none.
FirstFailing(v, r) ==
    IF \E k \in 1..Len(DenyChain(v)) : ~ParticipantTest(DenyChain(v)[k], v, r)
    THEN CHOOSE k \in 1..Len(DenyChain(v)) :
            /\ ~ParticipantTest(DenyChain(v)[k], v, r)
            /\ \A j \in 1..(k - 1) : ParticipantTest(DenyChain(v)[j], v, r)
    ELSE 0

\* C1: in a deny chain whose k-th participant fails while all before it
\* pass, the handler selected is the k-th participant's, whatever the tests
\* of the participants after k, and exactly the participants 1..k were
\* evaluated.
C1_ChainShortCircuit ==
    (Dispatched /\ HasDeny(view)) =>
        \A k \in 1..Len(DenyChain(view)) :
            (/\ ~ParticipantTest(DenyChain(view)[k], view, request)
             /\ \A j \in 1..(k - 1) :
                    ParticipantTest(DenyChain(view)[j], view, request))
            => /\ handler = ParticipantHandler(DenyChain(view)[k])
               /\ evaluated = SubSeq(DenyChain(view), 1, k)

\* C1 witness: a chain of three where the first passes, the second fails and
\* the third fails too; the second one's handler was selected.
C1_Witness ==
    /\ vpc = "call"
    /\ Len(DenyChain(view)) = 3
    /\ ParticipantTest(DenyChain(view)[1], view, request)
    /\ ~ParticipantTest(DenyChain(view)[2], view, request)
    /\ ~ParticipantTest(DenyChain(view)[3], view, request)
    /\ handler = DeniedHandler(DenyChain(view)[2])
    /\ Len(evaluated) = 2

AccessCheckFails(v, r) ==
    \E i \in DOMAIN v.behaviors : ~ParticipantTest(v.behaviors[i], v, r)

MethodUnsupported(v, r) ==
    \/ lower(r.method) \notin v.http_method_names
    \/ lower(r.method) \notin v.defined

\* The login URL a default denial redirects to.
ExpectedLoginPath ==
    IF settings.LOGIN_URL = Relative("login")
    THEN "/login/" ELSE "/accounts/login/"

\* C2: a request failing an access check and using a method the view does
\* not support is answered by the access behavior's denial: the configured
\* exception, or a redirect (with the declared attributes, to the login URL
\* with the next parameter); never by 405, and http_method_not_allowed is
\* not called.
C2_AccessDenialPrecedes405 ==
    (vpc = "done" /\ AccessCheckFails(view, request)
        /\ MethodUnsupported(view, request)) =>
        /\ handler.kind = "denied"
        /\ executed = <<handler>>
        /\ response.status # 405
        /\ \/ raised # "None" /\ response = NoResponse
              /\ view.denial[handler.arg].raise
           \/ raised = "None" /\ response.status = 302
        /\ view.denial[handler.arg] = DefaultDenial =>
              /\ response.url.path = ExpectedLoginPath
              /\ response.url.query =
                    <<[name |-> REDIRECT_FIELD_NAME,
                       value |-> Relative(request.path)]>>

\* C2 witness: a POST by an anonymous user to a login-required view over
\* the base View that only defines get was redirected to the login URL.
C2_Witness ==
    /\ vpc = "done"
    /\ view.base = "View"
    /\ AccessCheckFails(view, request)
    /\ ~http_method_deny_test(view, request)
    /\ request.method = "POST"
    /\ response.status = 302

\* The handler the dispatch protocol asks for: the deny handler if there is
\* one, else the allow handler if there is one, else http_method_not_allowed.
ExpectedHandler(v, r) ==
    IF HasDeny(v) /\ get_deny_handler_from(v, r, 1).handler # NoHandler
    THEN get_deny_handler_from(v, r, 1).handler
    ELSE IF HasAllow(v) /\ get_allow_handler(v, r) # NoHandler
    THEN get_allow_handler(v, r)
    ELSE MethodNotAllowed

\* C3: a dispatch calls exactly one handler: the deny handler if one is
\* returned, else the allow handler if one is returned, else
\* http_method_not_allowed; nothing is called after it.
C3_ExactlyOneHandler ==
    /\ Len(executed) <= 1
    /\ vpc \in {"idle", "call"} => executed = <<>>
    /\ vpc \notin {"idle", "call"} =>
            executed = <<ExpectedHandler(view, request)>>
    /\ (vpc = "done" /\ handler.kind \in {"custom_deny", "custom_allow"}) =>
            response = HttpResponse(handler.kind)

\* C3 witness: a view with both a failing access behavior and a defined
\* verb handler called the deny handler only.
C3_Witness ==
    /\ vpc = "done"
    /\ HasAllow(view)
    /\ get_allow_handler(view, request).kind = "verb"
    /\ executed = <<handler>>
    /\ handler.kind = "denied"

DenyRan == vpc = "done" /\ handler.kind = "denied"

\* C4: deny(prefix) raises, enqueues and responds in that order.  With
\* <prefix>_raise truthy the exception is raised with no message enqueued
\* and no response built; with it falsy and a non-empty message exactly one
\* message is enqueued, before the redirect is built; with it falsy and an
\* empty message no message is enqueued, whatever the level and tags.
C4_DenyStepOrder ==
    /\ (DenyRan /\ view.denial[handler.arg].raise) =>
            /\ raised # "None"
            /\ events = <<"raise">>
            /\ messages = <<>>
            /\ response = NoResponse
    /\ (handler.kind = "denied" /\ vpc \in {"deny_respond", "done"}
            /\ ~view.denial[handler.arg].raise
            /\ Truthy(view.denial[handler.arg].message)) =>
            /\ Len(messages) = 1
            /\ messages[1].message = view.denial[handler.arg].message
            /\ vpc = "deny_respond" =>
                    (events = <<"message">> /\ response = NoResponse)
            /\ vpc = "done" =>
                    (events = <<"message", "respond">>
                        /\ response.status = 302)
    /\ (handler.kind = "denied" /\ vpc \in {"deny_respond", "done"}
            /\ ~view.denial[handler.arg].raise
            /\ ~Truthy(view.denial[handler.arg].message)) =>
            /\ messages = <<>>
            /\ vpc = "done" => events = <<"respond">>

\* C4 witness: a denial with <prefix>_raise falsy and a message set ended
\* with one message and a redirect.
C4_Witness ==
    /\ DenyRan
    /\ ~view.denial[handler.arg].raise
    /\ view.denial[handler.arg].message = "Please log in"
    /\ view.denial[handler.arg].message_level = 40
    /\ Len(messages) = 1
    /\ response.status = 302

\* The denial attributes of the behavior that denied the request.
Denied == view.denial[handler.arg]

\* The redirect a denial with the declared URL attributes answers with: the
\* login URL with the request's path as its next parameter.
DefaultRedirect ==
    HttpResponseRedirect(
        Url("", "", ExpectedLoginPath,
            <<[name |-> REDIRECT_FIELD_NAME,
               value |-> Relative(request.path)]>>))

C14_RaiseConfiguredException ==
    (DenyRan /\ Denied.raise) =>
        /\ raised = IF Truthy(Denied.exception)
                    THEN Denied.exception
                    ELSE "PermissionDenied"
        /\ response = NoResponse

\* A denial with <prefix>_raise set and no <prefix>_exception raised
\* PermissionDenied, although a redirect URL was configured.
C14_Witness ==
    /\ DenyRan
    /\ Denied.raise
    /\ Denied.exception = "None"
    /\ Denied.redirect_url = Relative("/denied/")
    /\ raised = "PermissionDenied"
    /\ response = NoResponse

\* C15: with <prefix>_raise falsy a denial raises nothing, whatever
\* <prefix>_exception is, and answers with the redirect the same view gives
\* without <prefix>_exception; with the declared URL attributes that is the
\* redirect to the login URL with next=P.
C15_RaiseAloneDecides ==
    (DenyRan /\ ~Denied.raise /\ Truthy(Denied.exception)) =>
        /\ raised = "None"
        /\ events[Len(events)] = "respond"
        /\ "raise" \notin {events[i] : i \in DOMAIN events}
        /\ response.status = 302
        /\ response.url =
            get_denial_full_redirect_url(
                [view EXCEPT !.denial[handler.arg].exception = "None"],
                handler.arg, request, settings)
        /\ (Denied.redirect_url = NoUrl
                /\ Denied.redirect_next_url = NoUrl
                /\ Denied.redirect_next_name = REDIRECT_FIELD_NAME)
            => response = DefaultRedirect

\* A denial with only <prefix>_exception set ended with the default
\* redirect and nothing raised.
C15_Witness ==
    /\ DenyRan
    /\ Denied = [DefaultDenial EXCEPT !.exception = "CustomException"]
    /\ raised = "None"
    /\ response = DefaultRedirect

\* C16: a denial with <prefix>_message set enqueues exactly one message: the
\* configured text, at the configured level or WARNING when that is falsy,
\* with the configured extra tags or the empty string when they are falsy;
\* and it answers with the redirect.
C16_MessageDefaults ==
    (handler.kind = "denied" /\ vpc \in {"deny_respond", "done"}
            /\ ~Denied.raise /\ Truthy(Denied.message)) =>
        /\ messages =
            <<[level |-> IF Denied.message_level = 0
                         THEN WARNING ELSE Denied.message_level,
               message |-> Denied.message,
               extra_tags |-> IF Denied.message_tags \in {"None", ""}
                              THEN "" ELSE Denied.message_tags]>>
        /\ vpc = "done" => (response.status = 302 /\ raised = "None")

\* A denial with a message and neither level nor tags enqueued it at
\* WARNING with empty extra tags and redirected.
C16_Witness ==
    /\ DenyRan
    /\ Denied.message = "Please log in"
    /\ Denied.message_level = 0
    /\ Denied.message_tags = "None"
    /\ messages = <<[level |-> 30, message |-> "Please log in",
                     extra_tags |-> ""]>>
    /\ response.status = 302

\* The denial went through its respond step.
Redirected == DenyRan /\ ~Denied.raise

\* The redirect target the denial attributes and the settings ask for:
\* <prefix>_redirect_url, else the URL of the pattern settings.LOGIN_URL names,
\* else settings.LOGIN_URL as it is.
ExpectedTarget ==
    IF Denied.redirect_url \notin {NoUrl, Relative("")}
    THEN Denied.redirect_url
    ELSE IF settings.LOGIN_URL = Relative("login") THEN Relative("/login/")
    ELSE settings.LOGIN_URL

\* The next URL the denial attributes and the request ask for:
\* <prefix>_redirect_next_url, else the absolute URL of the request.
ExpectedNext ==
    IF Denied.redirect_next_url \notin {NoUrl, Relative("")}
    THEN Denied.redirect_next_url
    ELSE Url(IF request.secure THEN "https" ELSE "http", request.host,
             request.path, <<>>)

\* The last parameter of the redirect's query string.
LastParam == response.url.query[Len(response.url.query)]

\* The redirect is the target with one parameter of the given name appended.
TargetWithParam(name) ==
    /\ response.url.scheme = ExpectedTarget.scheme
    /\ response.url.netloc = ExpectedTarget.netloc
    /\ response.url.path = ExpectedTarget.path
    /\ Len(response.url.query) = Len(ExpectedTarget.query) + 1
    /\ SubSeq(response.url.query, 1, Len(ExpectedTarget.query))
            = ExpectedTarget.query
    /\ LastParam.name = name

\* C17 as stated: the redirect carries the next parameter exactly when
\* <prefix>_redirect_next_name is not None; with None the redirect URL is the
\* resolved redirect URL unchanged, with any other name a parameter of that
\* name, valued with the simplified next URL, is appended.
C17_NextParamIffNotNone ==
    Redirected =>
        /\ Denied.redirect_next_name = "None"
            => response.url = ExpectedTarget
        /\ Denied.redirect_next_name # "None"
            => /\ TargetWithParam(Denied.redirect_next_name)
               /\ LastParam.value =
                    simplify_redirect(ExpectedNext, ExpectedTarget, request)

\* C17: the redirect carries the next parameter exactly when
\* <prefix>_redirect_next_name is truthy; with None or the empty string the
\* redirect URL is the resolved redirect URL unchanged, with any other name
\* a parameter of that name, valued with the simplified next URL, is
\* appended.
C17_NextParamIffTruthy ==
    Redirected =>
        /\ Denied.redirect_next_name \in {"None", ""}
            => response.url = ExpectedTarget
        /\ Denied.redirect_next_name \notin {"None", ""}
            => /\ TargetWithParam(Denied.redirect_next_name)
               /\ LastParam.value =
                    simplify_redirect(ExpectedNext, ExpectedTarget, request)

\* A denial with <prefix>_redirect_next_name = "" and a next URL
\* configured redirected to the bare redirect URL.
C17_Witness ==
    /\ Redirected
    /\ Denied.redirect_next_name = ""
    /\ Denied.redirect_url = Relative("/denied/")
    /\ Denied.redirect_next_url = Relative("/next/")
    /\ response.url = Relative("/denied/")

\* C18: the redirect target is <prefix>_redirect_url when it is truthy;
\* otherwise it is the URL reverse() gives for settings.LOGIN_URL, and when
\* reverse() fails it is settings.LOGIN_URL verbatim and nothing is raised.
C18_RedirectTarget ==
    Redirected =>
        /\ raised = "None"
        /\ response.status = 302
        /\ ~Truthy(Denied.redirect_next_name)
            => response.url = ExpectedTarget
        /\ Truthy(Denied.redirect_next_name)
            => TargetWithParam(Denied.redirect_next_name)

\* <prefix>_redirect_url is the empty string and settings.LOGIN_URL is a path
\* no pattern is named after: the redirect went to that path.
C18_Witness ==
    /\ Redirected
    /\ Denied.redirect_url = Relative("")
    /\ settings.LOGIN_URL = Relative("/accounts/login/")
    /\ reverse(settings.LOGIN_URL) = NoUrl
    /\ response.url.path = "/accounts/login/"
    /\ raised = "None"

\* The scheme and host of a URL, and those of the request.
Origin(u) == <<u.scheme, u.netloc>>
RequestOrigin == <<IF request.secure THEN "https" ELSE "http", request.host>>

Stripped(u) == [u EXCEPT !.scheme = "", !.netloc = ""]

\* C20 as stated: the next URL has its scheme and host stripped whenever it
\* shares them with the redirect URL or with the request, whatever the
\* redirect URL is, and is otherwise passed on as it is.
C20_StrippedForEither ==
    (Redirected /\ Truthy(Denied.redirect_next_name)) =>
        LastParam.value =
            IF /\ Origin(ExpectedNext) # <<"", "">>
               /\ \/ Origin(ExpectedNext) = Origin(ExpectedTarget)
                  \/ Origin(ExpectedNext) = RequestOrigin
            THEN Stripped(ExpectedNext)
            ELSE ExpectedNext

\* C20: the next URL has its scheme and host stripped when it shares them
\* with the redirect URL, or when the redirect URL has neither and the next
\* URL shares them with the request; beside a redirect URL on another scheme
\* or host it stays absolute.  Apart from the stripping it is only put
\* together again by urlunparse(), which drops a delimiter in front of an
\* empty component.
C20_StrippedRelativeToRedirect ==
    (Redirected /\ Truthy(Denied.redirect_next_name)) =>
        LastParam.value =
            [(IF /\ Origin(ExpectedNext) # <<"", "">>
                 /\ \/ Origin(ExpectedNext) = Origin(ExpectedTarget)
                    \/ /\ Origin(ExpectedNext) = RequestOrigin
                       /\ Origin(ExpectedTarget) = <<"", "">>
              THEN Stripped(ExpectedNext)
              ELSE ExpectedNext) EXCEPT !.delims = {}]

\* The redirect URL is on another host and the next URL is the request's
\* own: it was passed on with its scheme and host.
C20_Witness ==
    /\ Redirected
    /\ Denied.redirect_url = Url("https", "sso.example.com", "/login/", <<>>)
    /\ Denied.redirect_next_url = NoUrl
    /\ Denied.redirect_next_name = REDIRECT_FIELD_NAME
    /\ ~request.secure
    /\ LastParam.value = Url("http", "testserver", "/resource/", <<>>)

----------------------------------------------------------------------------
(* Views that may be mis-configured. *)

NextConfig ==
    \/ DispatchConfig
    \/ CallHandler
    \/ denial_raise_exception
    \/ denial_enqueue_message
    \/ denial_respond
    \/ Return

SpecConfig == InitView /\ [][NextConfig]_vars

\* deny(prefix) ran to its end and its raise step let it pass.
RaiseStepPassed ==
    /\ DenyRan
    /\ "raise" \notin view.absent
    /\ ~Denied.raise

LookedUp(attr) ==
    CASE attr = "raise" -> TRUE
      [] attr = "exception" -> Denied.raise
      [] attr = "message" -> ~Denied.raise
      [] attr \in {"message_level", "message_tags"} ->
            ~Denied.raise /\ Denied.message \notin {"None", ""}
      [] attr \in {"redirect_url", "redirect_next_name"} ->
            /\ ~Denied.raise
            /\ Denied.message \notin {"None", ""} => request.has_messages
      [] OTHER ->
            /\ ~Denied.raise
            /\ Denied.message \notin {"None", ""} => request.has_messages
            /\ Denied.redirect_next_name \notin {"None", ""}

\* C22: when deny(prefix) looks up an attribute <prefix>_<option> the view
\* does not have, AttributeError leaves deny(prefix): no response is
\* returned and no default stands in for the attribute.
C22_AbsentAttributeRaises ==
    DenyRan =>
        \A attr \in view.absent :
            LookedUp(attr) =>
                /\ raised = "AttributeError"
                /\ response = NoResponse
                /\ "respond" \notin {events[i] : i \in DOMAIN events}

\* A view without <prefix>_redirect_url: the message was enqueued, then
\* AttributeError left deny(prefix).
C22_Witness ==
    /\ DenyRan
    /\ view.absent = {"redirect_url"}
    /\ events = <<"message">>
    /\ raised = "AttributeError"
    /\ response = NoResponse

\* C38: deny(prefix) leaves the message queue unchanged whenever it ends in
\* an error: if deny raises, be it the configured exception or an error of
\* the configuration such as a missing <prefix>_redirect_url attribute, no
\* message has been enqueued for the request.
C38_ErrorLeavesQueueUnchanged ==
    (DenyRan /\ raised # "None") => messages = <<>>

\* deny(prefix) enqueued the message of the denial and then failed to build
\* the redirect, whose URL names a scheme that no redirect may use.
C38_Witness ==
    /\ DenyRan
    /\ view.absent = {}
    /\ Denied.message = "Please log in"
    /\ request.has_messages
    /\ raised = "DisallowedRedirect"
    /\ events = <<"message">>
    /\ Len(messages) = 1
    /\ response = NoResponse

\* The value of the requirement of a GroupsRequired or PermissionsRequired
\* view, and the single values it is made of.
RequirementValue ==
    IF view.behaviors = <<"groups_required">>
    THEN view.groups_required ELSE view.permissions_required

RequirementItems ==
    IF RequirementValue.kind = "tuple"
    THEN {RequirementValue.items[i] : i \in DOMAIN RequirementValue.items}
    ELSE {RequirementValue} \ {PyNone}

\* A value that is neither a name nor (for groups) a Group.
WrongType ==
    \E item \in RequirementItems :
        item.kind \notin
            (IF view.behaviors = <<"groups_required">>
             THEN {"str", "Group"} ELSE {"str"})

\* A name of a group or permission that does not exist.
UnknownName ==
    \E item \in RequirementItems :
        /\ item.kind = "str"
        /\ item.name \notin
            (IF view.behaviors = <<"groups_required">>
             THEN {"editors", "authors"}
             ELSE {"auth.change_user", "auth.add_user"})

RequirementDone ==
    /\ vpc = "done"
    /\ view.behaviors \in {<<"groups_required">>, <<"permissions_required">>}

\* C23 as stated: a mis-configured groups or permissions requirement is a
\* configuration error, never an access denial: a value of the wrong type
\* raises ValueError, a group name that does not exist raises
\* ImproperlyConfigured, and a name that does not exist never leads to the
\* denial; no redirect is returned and no message is enqueued.
C23_MisconfigurationIsFatal ==
    RequirementDone =>
        /\ WrongType =>
            /\ raised = "ValueError"
            /\ response = NoResponse
            /\ messages = <<>>
        /\ (~WrongType /\ UnknownName) =>
            /\ view.behaviors = <<"groups_required">>
                    => raised = "ImproperlyConfigured"
            /\ handler.kind # "denied"
            /\ response = NoResponse
            /\ messages = <<>>

\* C23: a truthy groups_required or permissions_required holding a value of
\* the wrong type raises ValueError, and a groups_required naming a group
\* that does not exist raises ImproperlyConfigured; in both cases no handler
\* is called, no redirect is returned and no message is enqueued.  A falsy
\* value of any type switches the requirement off, and a permission name
\* that does not exist is not detected: every user but an active superuser
\* is denied access in the ordinary way.
C23_MisconfigurationReported ==
    RequirementDone =>
        /\ (WrongType /\ PyTruthy(RequirementValue)) =>
            /\ raised = "ValueError"
            /\ executed = <<>>
            /\ response = NoResponse
            /\ messages = <<>>
        /\ (~WrongType /\ UnknownName
                /\ view.behaviors = <<"groups_required">>) =>
            /\ raised = "ImproperlyConfigured"
            /\ executed = <<>>
            /\ response = NoResponse
            /\ messages = <<>>
        /\ ~PyTruthy(RequirementValue) =>
            /\ raised = "None"
            /\ handler.kind # "denied"
        /\ (~WrongType /\ UnknownName
                /\ view.behaviors = <<"permissions_required">>
                /\ ~request.user.is_superuser) =>
            handler = DeniedHandler("permissions_required")

\* A view requiring the groups "editors" and "ghosts", asked by a member of
\* editors: ImproperlyConfigured left dispatch().
C23_Witness ==
    /\ RequirementDone
    /\ view.groups_required = PyTuple(<<PyStr("editors"), PyStr("ghosts")>>)
    /\ request.user.groups = {1}
    /\ raised = "ImproperlyConfigured"
    /\ response = NoResponse
    /\ executed = <<>>

----------------------------------------------------------------------------
(* The HTTP method gates and the behaviors of the allow phase. *)

NextMethod ==
    \/ DispatchMethod
    \/ CallHandler
    \/ denial_raise_exception
    \/ denial_enqueue_message
    \/ denial_respond
    \/ Return

SpecMethod == InitView /\ [][NextMethod]_vars

\* The request's method, lower-cased, and what the view holds under it.
MethodName == lower(request.method)
MethodListed == MethodName \in view.http_method_names
MethodCallable == MethodName \in view.defined

\* HttpMethodDeny is in the view's MRO, behind no access behavior.
GateInChain ==
    /\ view.behaviors \in {<<>>, <<"http_method_deny">>}
    /\ \E i \in DOMAIN DenyChain(view) :
            DenyChain(view)[i] = "http_method_deny"

\* C24: the deny-style gate passes a request exactly when its lower-cased
\* method is in http_method_names and the view has a callable attribute of
\* that name.  When it does not pass, the handler is http_method_not_allowed
\* and the response is 405, also for a method with a handler that is outside
\* the set; when it passes and an allow-style gate follows, the handler is
\* the verb handler.
C24_MethodGate ==
    (Dispatched /\ GateInChain) =>
        /\ evaluated # <<>> /\ evaluated[1] = "http_method_deny"
        /\ ~(MethodListed /\ MethodCallable) =>
            /\ handler = MethodNotAllowed
            /\ vpc = "done" =>
                (response = HttpResponseNotAllowed /\ raised = "None")
        /\ (MethodListed /\ MethodCallable /\ HasAllow(view)) =>
            /\ handler = VerbHandler(MethodName)
            /\ (vpc = "done" /\ view.wrappers = <<>>) =>
                response = HttpResponse("OK")

\* RequireGET has answered 405 to a POST although the view defines post.
C24_Witness ==
    /\ vpc = "done"
    /\ GateInChain
    /\ view.http_method_names = {"get"}
    /\ request.method = "POST"
    /\ "post" \in view.defined
    /\ response.status = 405

\* HttpMethodAllow is the only gate of the view.
AllowGateOnly ==
    /\ view.base = "HttpMethodAllow"
    /\ view.behaviors = <<>>
    /\ view.wrappers = <<>>

C26_AllowAlone ==
    (vpc = "done" /\ AllowGateOnly) =>
        /\ MethodCallable =>
            /\ handler = VerbHandler(MethodName)
            /\ response = HttpResponse("OK")
            /\ raised = "None"
        /\ MethodName \notin view.defined \cup view.noncallable =>
            /\ handler = MethodNotAllowed
            /\ response = HttpResponseNotAllowed
            /\ raised = "None"

\* HttpMethodAllow alone has answered 200 to a POST that http_method_names
\* does not list.
C26_Witness ==
    /\ vpc = "done"
    /\ AllowGateOnly
    /\ request.method = "POST"
    /\ view.http_method_names = {"get"}
    /\ response = HttpResponse("OK")

\* The view has no allow participant: Null, Deny or HttpMethodDeny alone, or
\* behind behaviors of the deny phase.
NoAllowParticipant ==
    /\ view.base \in {"Null", "Deny", "HttpMethodDeny"}
    /\ view.wrappers = <<>>

\* C27: a view with no allow participant answers 405 to every request for
\* which no deny handler of a behavior is returned, whatever the method,
\* and also when the method is listed and has a handler.
C27_NoAllowIs405 ==
    (Dispatched /\ NoAllowParticipant /\ handler.kind # "denied") =>
        /\ handler = MethodNotAllowed
        /\ vpc = "done" =>
            (response = HttpResponseNotAllowed /\ raised = "None")

\* HttpMethodDeny alone has answered 405 to a GET that is listed and has a
\* handler.
C27_Witness ==
    /\ vpc = "done"
    /\ NoAllowParticipant
    /\ view.base = "HttpMethodDeny"
    /\ request.method = "GET"
    /\ MethodListed
    /\ MethodCallable
    /\ response.status = 405

\* The view is one access behavior composed in front of a base.
OneAccessBehavior ==
    /\ Len(view.behaviors) = 1
    /\ view.behaviors[1] \in Behaviors
    /\ view.wrappers = <<>>

\* The access check of the view's behavior passes: the behavior is switched
\* off, or the user has what it asks for.
AccessPasses ==
    LET b == view.behaviors[1]
    IN  \/ ~view.required[b]
        \/ b = "login_required" /\ request.user.is_authenticated
        \/ b = "active_required" /\ request.user.is_active
        \/ b = "staff_required" /\ request.user.is_staff

\* C28 as stated: behind an access behavior whose check passes, the base
\* View dispatches the request: the verb handler's response when the method
\* has a handler, 405 when it has none, no redirect and no message.
C28_PassDispatchedByView ==
    (vpc = "done" /\ OneAccessBehavior /\ AccessPasses
        /\ view.base \in {"View", "GenericView"}) =>
        /\ raised = "None"
        /\ messages = <<>>
        /\ response.status # 302
        /\ IF MethodCallable
           THEN response = HttpResponse("OK")
           ELSE response = HttpResponseNotAllowed

\* daydreamer.views.generic.View behind an access behavior has answered 405
\* to a request that passes the check and has a handler.
C28_Witness ==
    /\ vpc = "done"
    /\ OneAccessBehavior
    /\ AccessPasses
    /\ view.base = "GenericView"
    /\ MethodCallable
    /\ response = HttpResponseNotAllowed

\* The view is one behavior of the allow phase composed in front of a base.
OneAllowBehavior ==
    /\ Len(view.wrappers) = 1
    /\ view.base \in {"View", "GenericView"}

\* C29 as stated: behind a behavior of the allow phase, a request whose
\* method has no handler gets 405 without an ETag, Last-Modified or cache
\* header, whatever conditional headers it carries.
C29_MethodGateFirst ==
    (vpc = "done" /\ OneAllowBehavior /\ ~MethodCallable) =>
        /\ response.status = 405
        /\ response.headers = {}

\* Condition over daydreamer.views.generic.View has answered 412 to a POST
\* with a matching If-None-Match although the view has no post handler.
C29_Witness ==
    /\ vpc = "done"
    /\ OneAllowBehavior
    /\ view.base = "GenericView"
    /\ ~MethodCallable
    /\ request.conditional = "if_none_match_hit"
    /\ response.status = 412

\* The denial attributes of the view's behavior ask for an exception or a
\* message.
DenialConfigured ==
    LET d == view.denial[view.behaviors[1]]
    IN  d.raise \/ d.message # "None"

----------------------------------------------------------------------------
(* daydreamer.core.handlers.base.Handler.get_response, stage by stage. *)

InitHandler ==
    /\ ucall = NoCall
    /\ ThreadsIdle
    /\ ViewIdle
    /\ HandlerIdle
    /\ hcfg \in MiddlewareLists
    /\ settings \in [LOGIN_URL : {Relative("/accounts/login/")},
                     DEBUG : BOOLEAN]

Called(phase, outcome) ==
    [hcalled EXCEPT ![phase] = Append(@, outcome)]

\* An exception raised inside render_response() reaches the except clauses
\* of generate_response(); one raised by process_response() reaches those
\* of get_response().
RaiseInGenerate(kind, stage) ==
    /\ hexc' = Exc(kind, stage)
    /\ hpc' = "generate_response_except"

RaiseInGetResponse(kind, stage) ==
    /\ hexc' = Exc(kind, stage)
    /\ hpc' = "get_response_except"

\* A get_response() that resolves the view before the request middleware.
GetResponse_resolve_first ==
    /\ hpc = "idle"
    /\ \E rq \in {q \in HRequests : q.resolves} :
            /\ hreq' = resolve_view(rq, hcount).request
            /\ hcount' = resolve_view(rq, hcount).count
    /\ hpc' = "request_middleware"
    /\ hidx' = 1
    /\ hlog' = <<"get_resolver", "resolve_view", "request_middleware">>
    /\ UNCHANGED <<hcfg, hresp, hexc, hcaught, hcalled, settings, vvars, ucall, tvars>>

\* get_response(request): get_resolver(), then the first stage of
\* view_response(), apply_request_middleware().
GetResponse ==
    /\ hpc = "idle"
    /\ hreq' \in HRequests
    /\ hpc' = "request_middleware"
    /\ hidx' = 1
    /\ hlog' = <<"get_resolver", "request_middleware">>
    /\ UNCHANGED <<hcfg, hresp, hexc, hcaught, hcalled, hcount, settings,
                   vvars, ucall, tvars>>

\* A view_response() that resolves the view whatever the request middleware
\* returned.
RequestMiddleware_then_resolve ==
    /\ hpc = "request_middleware"
    /\ hidx <= hcfg.request
    /\ \/ /\ hcalled' = Called("request", "None")
          /\ hidx' = hidx + 1
          /\ UNCHANGED <<hpc, hresp, hexc, hlog, hreq, hcount>>
       \/ /\ hcalled' = Called("request", "response")
          /\ hreq' = resolve_view(hreq, hcount).request
          /\ hcount' = resolve_view(hreq, hcount).count
          /\ IF resolve_view(hreq, hcount).raised
             THEN /\ RaiseInGenerate("Http404", "resolve_view")
                  /\ hlog' = Append(hlog, "resolve_view")
                  /\ UNCHANGED hresp
             ELSE /\ \E render \in BOOLEAN :
                        hresp' = HResponse("request_middleware", render)
                  /\ hpc' = "validate_response"
                  /\ hlog' = hlog \o <<"resolve_view", "validate_response">>
                  /\ UNCHANGED hexc
          /\ UNCHANGED hidx
       \/ /\ hcalled' = Called("request", "raise")
          /\ \E kind \in ExcKinds : RaiseInGenerate(kind, "request_middleware")
          /\ UNCHANGED <<hidx, hresp, hlog, hreq, hcount>>
    /\ UNCHANGED <<hcfg, hcaught, settings, vvars, ucall, tvars>>

\* apply_request_middleware(): the next entry of the list is called; lang.any
\* stops at the first truthy response.
RequestMiddleware ==
    /\ hpc = "request_middleware"
    /\ hidx <= hcfg.request
    /\ \/ /\ hcalled' = Called("request", "None")
          /\ hidx' = hidx + 1
          /\ UNCHANGED <<hpc, hresp, hexc, hlog>>
       \/ /\ hcalled' = Called("request", "response")
          /\ \E render \in BOOLEAN :
                hresp' = HResponse("request_middleware", render)
          /\ hpc' = "validate_response"
          /\ hlog' = Append(hlog, "validate_response")
          /\ UNCHANGED <<hidx, hexc>>
       \/ /\ hcalled' = Called("request", "raise")
          /\ \E kind \in ExcKinds : RaiseInGenerate(kind, "request_middleware")
          /\ UNCHANGED <<hidx, hresp, hlog>>
    /\ UNCHANGED <<hcfg, hreq, hcaught, hcount, settings, vvars, ucall, tvars>>

\* apply_view_middleware() begins with resolve_view(): get_resolver_match()
\* is called when the request has no cached match.
ResolveView ==
    /\ hpc = "request_middleware"
    /\ hidx > hcfg.request
    /\ hlog' = hlog \o <<"resolve_view", "view_middleware">>
    /\ hreq' = resolve_view(hreq, hcount).request
    /\ hcount' = resolve_view(hreq, hcount).count
    /\ IF resolve_view(hreq, hcount).raised
       THEN /\ RaiseInGenerate("Http404", "resolve_view")
            /\ UNCHANGED hidx
       ELSE /\ hpc' = "view_middleware"
            /\ hidx' = 1
            /\ UNCHANGED hexc
    /\ UNCHANGED <<hcfg, hresp, hcaught, hcalled, settings, vvars, ucall, tvars>>

\* A view middleware stage that builds the whole list of results before
\* looking for the first response.
ViewMiddleware_eager ==
    /\ hpc = "view_middleware"
    /\ hidx <= hcfg.view
    /\ \/ /\ hcalled' = Called("view", "None")
          /\ hidx' = hidx + 1
          /\ UNCHANGED <<hpc, hresp, hexc, hlog>>
       \/ /\ hcalled' = Called("view", "response")
          /\ \E render \in BOOLEAN :
                hresp' = IF hresp = HNone
                         THEN HResponse("view_middleware", render)
                         ELSE hresp
          /\ IF hidx < hcfg.view
             THEN /\ hidx' = hidx + 1
                  /\ UNCHANGED <<hpc, hlog>>
             ELSE /\ hpc' = "validate_response"
                  /\ hlog' = Append(hlog, "validate_response")
                  /\ UNCHANGED hidx
          /\ UNCHANGED hexc
       \/ /\ hcalled' = Called("view", "raise")
          /\ \E kind \in ExcKinds : RaiseInGenerate(kind, "view_middleware")
          /\ UNCHANGED <<hidx, hresp, hlog>>
    /\ UNCHANGED <<hcfg, hreq, hcaught, hcount, settings, vvars, ucall, tvars>>

\* apply_view_middleware(): the next entry of the list is called.
ViewMiddleware ==
    /\ hpc = "view_middleware"
    /\ hidx <= hcfg.view
    /\ \/ /\ hcalled' = Called("view", "None")
          /\ hidx' = hidx + 1
          /\ UNCHANGED <<hpc, hresp, hexc, hlog>>
       \/ /\ hcalled' = Called("view", "response")
          /\ \E render \in BOOLEAN :
                hresp' = HResponse("view_middleware", render)
          /\ hpc' = "validate_response"
          /\ hlog' = Append(hlog, "validate_response")
          /\ UNCHANGED <<hidx, hexc>>
       \/ /\ hcalled' = Called("view", "raise")
          /\ \E kind \in ExcKinds : RaiseInGenerate(kind, "view_middleware")
          /\ UNCHANGED <<hidx, hresp, hlog>>
    /\ UNCHANGED <<hcfg, hreq, hcaught, hcount, settings, vvars, ucall, tvars>>

\* An apply_view() whose except clause catches every exception.
ApplyView_bare_except ==
    /\ hpc = "view_middleware"
    /\ hidx > hcfg.view
    /\ ~resolve_view(hreq, hcount).raised
    /\ hreq' = resolve_view(hreq, hcount).request
    /\ hcount' = [resolve_view(hreq, hcount).count EXCEPT !.view = @ + 1]
    /\ \/ /\ \E render \in BOOLEAN : hresp' = HResponse("view", render)
          /\ hpc' = "validate_response"
          /\ hlog' = hlog \o <<"view", "validate_response">>
          /\ UNCHANGED <<hidx, hexc>>
       \/ /\ hresp' = HNone
          /\ hpc' = "validate_response"
          /\ hlog' = hlog \o <<"view", "validate_response">>
          /\ UNCHANGED <<hidx, hexc>>
       \/ \E kind \in ExcKinds :
            /\ hexc' = Exc(kind, "view")
            /\ hpc' = "exception_middleware"
            /\ hidx' = 1
            /\ hlog' = hlog \o <<"view", "exception_middleware">>
            /\ UNCHANGED hresp
    /\ UNCHANGED <<hcfg, hcaught, hcalled, settings, vvars, ucall, tvars>>

\* apply_view(): resolve_view() returns the view, which is called; it
\* returns a response, returns a falsy value, or raises.  An Exception goes
\* to the exception middleware.
ApplyView ==
    /\ hpc = "view_middleware"
    /\ hidx > hcfg.view
    /\ ~resolve_view(hreq, hcount).raised
    /\ hreq' = resolve_view(hreq, hcount).request
    /\ hcount' = [resolve_view(hreq, hcount).count EXCEPT !.view = @ + 1]
    /\ \/ /\ \E render \in BOOLEAN : hresp' = HResponse("view", render)
          /\ hpc' = "validate_response"
          /\ hlog' = hlog \o <<"view", "validate_response">>
          /\ UNCHANGED <<hidx, hexc>>
       \/ /\ hresp' = HNone
          /\ hpc' = "validate_response"
          /\ hlog' = hlog \o <<"view", "validate_response">>
          /\ UNCHANGED <<hidx, hexc>>
       \/ \E kind \in ExcKinds :
            IF IsException(kind)
            THEN /\ hexc' = Exc(kind, "view")
                 /\ hpc' = "exception_middleware"
                 /\ hidx' = 1
                 /\ hlog' = hlog \o <<"view", "exception_middleware">>
                 /\ UNCHANGED hresp
            ELSE /\ RaiseInGenerate(kind, "view")
                 /\ hlog' = Append(hlog, "view")
                 /\ UNCHANGED <<hidx, hresp>>
    /\ UNCHANGED <<hcfg, hcaught, hcalled, settings, vvars, ucall, tvars>>

\* An exception middleware stage that calls every entry and uses the last
\* response returned.
ExceptionMiddleware_all ==
    /\ hpc = "exception_middleware"
    /\ hidx <= hcfg.exception
    /\ \/ /\ hcalled' = Called("exception", "None")
          /\ hidx' = hidx + 1
          /\ UNCHANGED <<hpc, hresp, hexc, hcaught, hlog>>
       \/ /\ hcalled' = Called("exception", "response")
          /\ \E render \in BOOLEAN :
                hresp' = HResponse("exception_middleware", render)
          /\ IF hidx < hcfg.exception
             THEN /\ hidx' = hidx + 1
                  /\ UNCHANGED <<hpc, hexc, hcaught, hlog>>
             ELSE /\ hcaught' = Append(hcaught,
                        [exc |-> hexc, by |-> "exception_middleware"])
                  /\ hexc' = NoExc
                  /\ hpc' = "validate_response"
                  /\ hlog' = Append(hlog, "validate_response")
                  /\ UNCHANGED hidx
       \/ /\ hcalled' = Called("exception", "raise")
          /\ \E kind \in ExcKinds :
                RaiseInGenerate(kind, "exception_middleware")
          /\ UNCHANGED <<hidx, hresp, hcaught, hlog>>
    /\ UNCHANGED <<hcfg, hreq, hcount, settings, vvars, ucall, tvars>>

\* apply_exception_middleware(): the next entry of the list is called with
\* the view's exception.
ExceptionMiddleware ==
    /\ hpc = "exception_middleware"
    /\ hidx <= hcfg.exception
    /\ \/ /\ hcalled' = Called("exception", "None")
          /\ hidx' = hidx + 1
          /\ UNCHANGED <<hpc, hresp, hexc, hcaught, hlog>>
       \/ /\ hcalled' = Called("exception", "response")
          /\ \E render \in BOOLEAN :
                hresp' = HResponse("exception_middleware", render)
          /\ hcaught' = Append(hcaught,
                [exc |-> hexc, by |-> "exception_middleware"])
          /\ hexc' = NoExc
          /\ hpc' = "validate_response"
          /\ hlog' = Append(hlog, "validate_response")
          /\ UNCHANGED hidx
       \/ /\ hcalled' = Called("exception", "raise")
          /\ \E kind \in ExcKinds :
                RaiseInGenerate(kind, "exception_middleware")
          /\ UNCHANGED <<hidx, hresp, hcaught, hlog>>
    /\ UNCHANGED <<hcfg, hreq, hcount, settings, vvars, ucall, tvars>>

\* apply_view(): no exception middleware returned a response, the view's
\* exception is raised again.
ReraiseViewException ==
    /\ hpc = "exception_middleware"
    /\ hidx > hcfg.exception
    /\ hpc' = "generate_response_except"
    /\ UNCHANGED <<hcfg, hreq, hidx, hresp, hexc, hcaught, hcalled, hcount,
                   hlog, settings, vvars, ucall, tvars>>

\* The names bound in the module daydreamer.core.handlers.base: its imports
\* (lines 1-14), __all__, logger and Handler.
ModuleGlobals ==
    {"unicode_literals", "collections", "logging", "sys", "http", "settings",
     "exceptions", "signals", "urlresolvers", "base", "encoding", "six",
     "debug", "lang", "__all__", "logger", "Handler"}

\* view.__module__ and the name validate_response() gives the view:
\* view.__name__ for a function, view.__class__.__name__ + ".__call__"
\* otherwise.
ViewModule(callable) == "view.__module__"
ViewName(callable) ==
    IF callable = "function" THEN "view.__name__"
    ELSE "view.__class__.__name__.__call__"

\* The exception the raise statement of validate_response() ends with
\* (lines 116-122).  The arguments of format() are evaluated before
\* ValueError is called; the second reads the global name types, and reading
\* a name the module does not bind raises NameError.
validate_response_error(callable) ==
    IF "types" \in ModuleGlobals
    THEN Error("ValueError",
               <<"The view ", ViewModule(callable), ".", ViewName(callable),
                 " didn't return an HttpResponse object.">>,
               "validate_response")
    ELSE Error("NameError", <<"global name 'types' is not defined">>,
               "validate_response")

\* validate_response(): a truthy response is returned; for a falsy one the
\* view is looked up with resolve_view() and the raise statement runs.
ValidateResponse ==
    /\ hpc = "validate_response"
    /\ IF hresp = HNone
       THEN /\ hreq' = resolve_view(hreq, hcount).request
            /\ hcount' = resolve_view(hreq, hcount).count
            /\ hexc' = IF resolve_view(hreq, hcount).raised
                       THEN Exc("Http404", "validate_response")
                       ELSE validate_response_error(
                                resolve_view(hreq, hcount)
                                    .request.resolver_match.view)
            /\ hpc' = "generate_response_except"
            /\ UNCHANGED <<hidx, hlog>>
       ELSE /\ hpc' = "template_response_middleware"
            /\ hidx' = 1
            /\ hlog' = Append(hlog, "template_response_middleware")
            /\ UNCHANGED <<hreq, hcount, hexc>>
    /\ UNCHANGED <<hcfg, hresp, hcaught, hcalled, settings, vvars, ucall, tvars>>

\* A template response stage that also takes responses without render().
TemplateResponseMiddleware_unconditional ==
    /\ hpc = "template_response_middleware"
    /\ hidx <= hcfg.template_response
    /\ \/ /\ hcalled' = Called("template_response", "response")
          /\ hresp' = [hresp EXCEPT !.tpl = @ + 1]
          /\ hidx' = hidx + 1
          /\ UNCHANGED <<hpc, hexc>>
       \/ /\ hcalled' = Called("template_response", "raise")
          /\ \E kind \in ExcKinds :
                RaiseInGenerate(kind, "template_response_middleware")
          /\ UNCHANGED <<hidx, hresp>>
    /\ UNCHANGED <<hcfg, hreq, hcaught, hcount, hlog, settings, vvars, ucall, tvars>>

\* apply_template_response_middleware(): a response with a render() method
\* is passed through the next entry of the list.
TemplateResponseMiddleware ==
    /\ hpc = "template_response_middleware"
    /\ hresp.render
    /\ hidx <= hcfg.template_response
    /\ \/ /\ hcalled' = Called("template_response", "response")
          /\ hresp' = [hresp EXCEPT !.tpl = @ + 1]
          /\ hidx' = hidx + 1
          /\ UNCHANGED <<hpc, hexc>>
       \/ /\ hcalled' = Called("template_response", "raise")
          /\ \E kind \in ExcKinds :
                RaiseInGenerate(kind, "template_response_middleware")
          /\ UNCHANGED <<hidx, hresp>>
    /\ UNCHANGED <<hcfg, hreq, hcaught, hcount, hlog, settings, vvars, ucall, tvars>>

\* apply_template_response_middleware() renders the response and returns;
\* generate_response() returns it and process_response() starts with
\* apply_response_middleware().
RenderResponse ==
    /\ hpc = "template_response_middleware"
    /\ ~hresp.render \/ hidx > hcfg.template_response
    /\ hresp' = [hresp EXCEPT !.rendered = hresp.render]
    /\ hpc' = "response_middleware"
    /\ hidx' = 1
    /\ hlog' = Append(hlog, "response_middleware")
    /\ UNCHANGED <<hcfg, hreq, hexc, hcaught, hcalled, hcount, settings,
                   vvars, ucall, tvars>>

\* A handle_not_found() whose response get_response() returns as it is.
handle_not_found_final ==
    /\ hpc = "generate_response_except"
    /\ hexc.kind = "Http404"
    /\ hcaught' = Append(hcaught, [exc |-> hexc, by |-> "generate_response"])
    /\ hexc' = NoExc
    /\ hresp' = IF settings.DEBUG
                THEN HResponse("technical_404_response", FALSE)
                ELSE HResponse("resolve404", FALSE)
    /\ hpc' = "done"
    /\ hlog' = Append(hlog, "handle_not_found")
    /\ UNCHANGED <<hcfg, hreq, hidx, hcalled, hcount, settings, vvars, ucall, tvars>>

\* generate_response(): except http.Http404 -> handle_not_found().
handle_not_found ==
    /\ hpc = "generate_response_except"
    /\ hexc.kind = "Http404"
    /\ hcaught' = Append(hcaught, [exc |-> hexc, by |-> "generate_response"])
    /\ hexc' = NoExc
    /\ hresp' = IF settings.DEBUG
                THEN HResponse("technical_404_response", FALSE)
                ELSE HResponse("resolve404", FALSE)
    /\ hpc' = "response_middleware"
    /\ hidx' = 1
    /\ hlog' = hlog \o <<"handle_not_found", "response_middleware">>
    /\ UNCHANGED <<hcfg, hreq, hcalled, hcount, settings, vvars, ucall, tvars>>

\* generate_response(): except PermissionDenied ->
\* handle_permission_denied().
handle_permission_denied ==
    /\ hpc = "generate_response_except"
    /\ hexc.kind = "PermissionDenied"
    /\ hcaught' = Append(hcaught, [exc |-> hexc, by |-> "generate_response"])
    /\ hexc' = NoExc
    /\ hresp' = HResponse("resolve403", FALSE)
    /\ hpc' = "response_middleware"
    /\ hidx' = 1
    /\ hlog' = hlog \o <<"handle_permission_denied", "response_middleware">>
    /\ UNCHANGED <<hcfg, hreq, hcalled, hcount, settings, vvars, ucall, tvars>>

\* A handle_suspicious_operation() that asks the resolver for the 403
\* handler.
handle_suspicious_operation_403 ==
    /\ hpc = "generate_response_except"
    /\ hexc.kind = "SuspiciousOperation"
    /\ hcaught' = Append(hcaught, [exc |-> hexc, by |-> "generate_response"])
    /\ hexc' = NoExc
    /\ hresp' = HResponse("resolve403", FALSE)
    /\ hpc' = "response_middleware"
    /\ hidx' = 1
    /\ hlog' = hlog \o
            <<"handle_suspicious_operation", "response_middleware">>
    /\ UNCHANGED <<hcfg, hreq, hcalled, hcount, settings, vvars, ucall, tvars>>

\* generate_response(): except SuspiciousOperation ->
\* handle_suspicious_operation().
handle_suspicious_operation ==
    /\ hpc = "generate_response_except"
    /\ hexc.kind = "SuspiciousOperation"
    /\ hcaught' = Append(hcaught, [exc |-> hexc, by |-> "generate_response"])
    /\ hexc' = NoExc
    /\ hresp' = HResponse("resolve400", FALSE)
    /\ hpc' = "response_middleware"
    /\ hidx' = 1
    /\ hlog' = hlog \o
            <<"handle_suspicious_operation", "response_middleware">>
    /\ UNCHANGED <<hcfg, hreq, hcalled, hcount, settings, vvars, ucall, tvars>>

\* generate_response() has no except clause for the exception: it reaches
\* the except clauses of get_response().
LeaveGenerateResponse ==
    /\ hpc = "generate_response_except"
    /\ hexc.kind \notin {"Http404", "PermissionDenied", "SuspiciousOperation"}
    /\ hpc' = "get_response_except"
    /\ UNCHANGED <<hcfg, hreq, hidx, hresp, hexc, hcaught, hcalled, hcount,
                   hlog, settings, vvars, ucall, tvars>>

\* A response middleware stage run inside the try block of
\* generate_response().
ResponseMiddleware_in_generate ==
    /\ hpc = "response_middleware"
    /\ hidx <= hcfg.response
    /\ \/ /\ hcalled' = Called("response", "response")
          /\ hresp' = [hresp EXCEPT !.mw = @ + 1]
          /\ hidx' = hidx + 1
          /\ UNCHANGED <<hpc, hexc>>
       \/ /\ hcalled' = Called("response", "raise")
          /\ \E kind \in ExcKinds :
                RaiseInGenerate(kind, "response_middleware")
          /\ UNCHANGED <<hidx, hresp>>
    /\ UNCHANGED <<hcfg, hreq, hcaught, hcount, hlog, settings, vvars, ucall, tvars>>

\* apply_response_middleware(): the response is passed through the next
\* entry of the list.
ResponseMiddleware ==
    /\ hpc = "response_middleware"
    /\ hidx <= hcfg.response
    /\ \/ /\ hcalled' = Called("response", "response")
          /\ hresp' = [hresp EXCEPT !.mw = @ + 1]
          /\ hidx' = hidx + 1
          /\ UNCHANGED <<hpc, hexc>>
       \/ /\ hcalled' = Called("response", "raise")
          /\ \E kind \in ExcKinds :
                RaiseInGetResponse(kind, "response_middleware")
          /\ UNCHANGED <<hidx, hresp>>
    /\ UNCHANGED <<hcfg, hreq, hcaught, hcount, hlog, settings, vvars, ucall, tvars>>

\* apply_response_fixes(): the base handler's response fixes; get_response()
\* returns the response.
ResponseFixes ==
    /\ hpc = "response_middleware"
    /\ hidx > hcfg.response
    /\ hlog' = Append(hlog, "response_fixes")
    /\ \/ /\ hresp' = [hresp EXCEPT !.fixed = TRUE]
          /\ hpc' = "done"
          /\ UNCHANGED hexc
       \/ /\ \E kind \in ExcKinds : RaiseInGetResponse(kind, "response_fixes")
          /\ UNCHANGED hresp
    /\ UNCHANGED <<hcfg, hreq, hidx, hcaught, hcalled, hcount, settings,
                   vvars, ucall, tvars>>

\* get_response(): except SystemExit: the exception is raised again and
\* leaves get_response().
ReraiseSystemExit ==
    /\ hpc = "get_response_except"
    /\ hexc.kind = "SystemExit"
    /\ hpc' = "done"
    /\ UNCHANGED <<hcfg, hreq, hidx, hresp, hexc, hcaught, hcalled, hcount,
                   hlog, settings, vvars, ucall, tvars>>

\* A handle_uncaught_exception() that sends no signal.
SendGotRequestException_silent ==
    /\ hpc = "get_response_except"
    /\ hexc.kind # "SystemExit"
    /\ hcaught' = Append(hcaught, [exc |-> hexc, by |-> "get_response"])
    /\ hexc' = NoExc
    /\ hpc' = "handle_uncaught_exception"
    /\ UNCHANGED <<hcfg, hreq, hidx, hresp, hcalled, hcount, hlog, settings,
                   vvars, ucall, tvars>>

\* get_response(): except: handle_uncaught_exception() first sends
\* signals.got_request_exception.
SendGotRequestException ==
    /\ hpc = "get_response_except"
    /\ hexc.kind # "SystemExit"
    /\ hcaught' = Append(hcaught, [exc |-> hexc, by |-> "get_response"])
    /\ hexc' = NoExc
    /\ hcount' = [hcount EXCEPT !.signal = @ + 1]
    /\ hlog' = Append(hlog, "got_request_exception")
    /\ hpc' = "handle_uncaught_exception"
    /\ UNCHANGED <<hcfg, hreq, hidx, hresp, hcalled, settings, vvars, ucall, tvars>>

\* A handle_uncaught_exception() that ends the process instead of
\* returning.
BaseHandleUncaughtException_exit ==
    /\ hpc = "handle_uncaught_exception"
    /\ hcount' = [hcount EXCEPT !.uncaught = @ + 1]
    /\ hlog' = Append(hlog, "handle_uncaught_exception")
    /\ hpc' = "exited"
    /\ UNCHANGED <<hcfg, hreq, hidx, hresp, hexc, hcaught, hcalled, settings,
                   vvars, ucall, tvars>>

\* handle_uncaught_exception() then returns the response of the base
\* handler's handle_uncaught_exception(), which get_response() returns.
BaseHandleUncaughtException ==
    /\ hpc = "handle_uncaught_exception"
    /\ hcount' = [hcount EXCEPT !.uncaught = @ + 1]
    /\ hlog' = Append(hlog, "handle_uncaught_exception")
    /\ hresp' = HResponse("handle_uncaught_exception", FALSE)
    /\ hpc' = "done"
    /\ UNCHANGED <<hcfg, hreq, hidx, hexc, hcaught, hcalled, settings,
                   vvars, ucall, tvars>>

\* get_response() is over; the handler takes the next request.
HandlerReturn ==
    /\ hpc = "done"
    /\ hreq' = NoHRequest
    /\ hpc' = "idle"
    /\ hidx' = 0
    /\ hresp' = HNone
    /\ hexc' = NoExc
    /\ hcaught' = <<>>
    /\ hcalled' = NoCalls
    /\ hcount' = NoCounts
    /\ hlog' = <<>>
    /\ UNCHANGED <<hcfg, settings, vvars, ucall, tvars>>

NextHandler ==
    \/ GetResponse
    \/ RequestMiddleware
    \/ ResolveView
    \/ ViewMiddleware
    \/ ApplyView
    \/ ExceptionMiddleware
    \/ ReraiseViewException
    \/ ValidateResponse
    \/ TemplateResponseMiddleware
    \/ RenderResponse
    \/ handle_not_found
    \/ handle_permission_denied
    \/ handle_suspicious_operation
    \/ LeaveGenerateResponse
    \/ ResponseMiddleware
    \/ ResponseFixes
    \/ ReraiseSystemExit
    \/ SendGotRequestException
    \/ BaseHandleUncaughtException
    \/ HandlerReturn

SpecHandler == InitHandler /\ [][NextHandler]_vars

----------------------------------------------------------------------------
(* Properties of Handler.get_response. *)

MappedKinds == {"Http404", "PermissionDenied", "SuspiciousOperation"}

\* The response the resolver-provided handler of a mapped exception gives.
HandlerOrigin(kind) ==
    CASE kind = "Http404" ->
            IF settings.DEBUG THEN "technical_404_response" ELSE "resolve404"
      [] kind = "PermissionDenied" -> "resolve403"
      [] kind = "SuspiciousOperation" -> "resolve400"

\* The stages that run inside the try block of generate_response().
GenerateStages ==
    {"request_middleware", "resolve_view", "view_middleware", "view",
     "exception_middleware", "validate_response",
     "template_response_middleware"}

\* The stages of process_response(), outside that try block.
ProcessStages == {"response_middleware", "response_fixes"}

Positions(stage) == {i \in DOMAIN hlog : hlog[i] = stage}

\* The stages of the log whose rank is given occur in increasing rank.
InRankOrder(rank) ==
    \A i, j \in DOMAIN hlog :
        (i < j /\ hlog[i] \in DOMAIN rank /\ hlog[j] \in DOMAIN rank)
            => rank[hlog[i]] < rank[hlog[j]]

\* C5: when a request middleware or a view middleware returns a response, no
\* later middleware of that phase is called, and after a view middleware
\* response the view itself is not called.
C5_MiddlewareShortCircuit ==
    /\ \A phase \in {"request", "view"} :
        \A i \in DOMAIN hcalled[phase] :
            hcalled[phase][i] = "response" => i = Len(hcalled[phase])
    /\ (\E i \in DOMAIN hcalled.view : hcalled.view[i] = "response")
            => hcount.view = 0

\* The first of two view middleware returned a response and the request is
\* over: the second was never called, nor was the view.
C5_Witness ==
    /\ hpc = "done"
    /\ hcfg.view = 2
    /\ hcalled.view = <<"response">>
    /\ hcount.view = 0
    /\ hresp.origin = "view_middleware"

\* The order in which the stages are said to run: view resolution before
\* the request middleware, the exception mapping before validation.
ClaimedStageRank ==
    [resolve_view |-> 1, request_middleware |-> 2, view_middleware |-> 3,
     view |-> 4, handle_not_found |-> 5, handle_permission_denied |-> 5,
     handle_suspicious_operation |-> 5, validate_response |-> 6,
     template_response_middleware |-> 7, response_middleware |-> 8,
     response_fixes |-> 9]

\* The order in which get_response() runs them.
StageRank ==
    [get_resolver |-> 0, request_middleware |-> 1, resolve_view |-> 2,
     view_middleware |-> 3, view |-> 4, exception_middleware |-> 5,
     validate_response |-> 6, template_response_middleware |-> 7,
     handle_not_found |-> 8, handle_permission_denied |-> 8,
     handle_suspicious_operation |-> 8, response_middleware |-> 9,
     response_fixes |-> 10, got_request_exception |-> 11,
     handle_uncaught_exception |-> 12]

\* C6 as stated: the stages of a request run in the order view resolution,
\* request middleware, view middleware, view, exception-to-response mapping,
\* response validation, template-response middleware, response middleware,
\* response fixes.
C6_ClaimedStageOrder == InRankOrder(ClaimedStageRank)

\* C6: the stages of a request run in the order request middleware, view
\* resolution, view middleware, view (then exception middleware), response
\* validation, template-response middleware, mapping of Http404,
\* PermissionDenied and SuspiciousOperation to responses, response
\* middleware, response fixes, and last the handling of an uncaught
\* exception; no stage starts before an earlier one.
C6_StageOrder ==
    /\ InRankOrder(StageRank)
    /\ hlog # <<>> => hlog[1] = "get_resolver"
    /\ \A i \in DOMAIN hlog : hlog[i] \in DOMAIN StageRank

\* A request whose template-response middleware raised Http404: the request
\* middleware ran before the view was resolved, and the exception was mapped
\* after validation, before the response middleware.
C6_Witness ==
    /\ hpc = "done"
    /\ hlog = <<"get_resolver", "request_middleware", "resolve_view",
                "view_middleware", "view", "validate_response",
                "template_response_middleware", "handle_not_found",
                "response_middleware", "response_fixes">>
    /\ hcalled.request # <<>>

\* C7: when the view raises Http404, PermissionDenied or SuspiciousOperation
\* and no exception middleware returns a response, the exception is turned
\* into the response of the matching handler (the technical 404 response
\* under DEBUG) and does not leave generate_response(); that response is the
\* one process_response() works on and get_response() returns, and the only
\* thing that can replace it is an exception raised later by the response
\* middleware or the response fixes.
C7_ViewExceptionMapped ==
    /\ (hexc.stage = "view" /\ hexc.kind \in MappedKinds)
            => hpc \in {"exception_middleware", "generate_response_except"}
    /\ \A i \in DOMAIN hcaught :
        LET c == hcaught[i] IN
        (c.exc.stage = "view" /\ c.exc.kind \in MappedKinds)
            => /\ c.by \in {"exception_middleware", "generate_response"}
               /\ c.by = "exception_middleware"
                    => hcalled.exception[Len(hcalled.exception)] = "response"
               /\ c.by = "generate_response"
                    => /\ i = 1
                       /\ \A k \in DOMAIN hcalled.exception :
                            hcalled.exception[k] = "None"
                       /\ Len(hcalled.exception) = hcfg.exception
                       /\ (Len(hcaught) = 1 /\ hexc = NoExc)
                            => hresp.origin = HandlerOrigin(c.exc.kind)
                       /\ hexc # NoExc => hexc.stage \in ProcessStages
                       /\ \A k \in DOMAIN hcaught :
                            k > 1 => hcaught[k].exc.stage \in ProcessStages

\* The view raised PermissionDenied, both exception middleware returned
\* None, and get_response() returned the response of the 403 handler.
C7_Witness ==
    /\ hpc = "done"
    /\ hcfg.exception = 2
    /\ hcalled.exception = <<"None", "None">>
    /\ hcaught = <<[exc |-> Exc("PermissionDenied", "view"),
                    by |-> "generate_response"]>>
    /\ hexc = NoExc
    /\ hresp.origin = "resolve403"
    /\ hresp.fixed

\* C8 as stated: Http404, PermissionDenied or SuspiciousOperation raised at
\* any stage, the response middleware and the response fixes included, is
\* mapped to the 404, 403 or 400 handler response.
C8_MappedAtAnyStage ==
    /\ hexc.kind \in MappedKinds => hpc # "get_response_except"
    /\ \A i \in DOMAIN hcaught :
        hcaught[i].exc.kind \in MappedKinds
            => hcaught[i].by \in {"exception_middleware", "generate_response"}

\* C8: Http404, PermissionDenied or SuspiciousOperation raised by the request
\* middleware, view resolution, the view middleware, the view, the exception
\* middleware or the template-response middleware is mapped to the 404, 403
\* or 400 handler response inside generate_response(); raised by the
\* response middleware or the response fixes it is not mapped: it reaches
\* handle_uncaught_exception(), which sends the signal and returns the
\* base handler's response.  In neither case is it still raised when
\* get_response() is over.
C8_MappedInsideGenerate ==
    /\ hexc.kind \in MappedKinds
        => /\ hexc.stage \in GenerateStages
                => hpc \in {"exception_middleware", "generate_response_except"}
           /\ hexc.stage \in ProcessStages => hpc = "get_response_except"
           /\ hexc.stage \in GenerateStages \cup ProcessStages
    /\ \A i \in DOMAIN hcaught :
        LET c == hcaught[i] IN
        c.exc.kind \in MappedKinds
            => /\ c.exc.stage \in GenerateStages
                    => /\ c.by \in {"exception_middleware", "generate_response"}
                       /\ c.by = "exception_middleware" => c.exc.stage = "view"
                       /\ (c.by = "generate_response" /\ i = Len(hcaught)
                                /\ hexc = NoExc)
                            => hresp.origin = HandlerOrigin(c.exc.kind)
               /\ c.exc.stage \in ProcessStages
                    => /\ c.by = "get_response"
                       /\ i = Len(hcaught)
                       /\ hcount.signal = 1
                       /\ hpc = "done"
                            => hresp.origin = "handle_uncaught_exception"

\* A response middleware raised Http404: the signal was sent and
\* get_response() returned the base handler's response, not the 404
\* handler's.
C8_Witness ==
    /\ hpc = "done"
    /\ hcaught = <<[exc |-> Exc("Http404", "response_middleware"),
                    by |-> "get_response"]>>
    /\ hcount.signal = 1
    /\ hcount.uncaught = 1
    /\ hresp.origin = "handle_uncaught_exception"
    /\ "handle_not_found" \notin {hlog[i] : i \in DOMAIN hlog}

\* C9: a SystemExit raised at any stage is never handed to the exception
\* middleware, is caught by nothing, sends no signal and reaches no 500
\* handler; it is raised again out of get_response().
C9_SystemExitPropagates ==
    /\ hexc.kind = "SystemExit"
        => /\ hpc \in {"generate_response_except", "get_response_except",
                       "done"}
           /\ hcount.signal = 0
           /\ hcount.uncaught = 0
           /\ hexc.stage = "view" => hcalled.exception = <<>>
    /\ \A i \in DOMAIN hcaught : hcaught[i].exc.kind # "SystemExit"
    /\ (hpc = "done" /\ hexc # NoExc) => hexc.kind = "SystemExit"
    /\ hpc = "handle_uncaught_exception"
        => hcaught[Len(hcaught)].exc.kind # "SystemExit"

\* The view raised SystemExit with two exception middleware installed:
\* get_response() is over with the SystemExit raised, no exception middleware
\* was called and no signal was sent.
C9_Witness ==
    /\ hpc = "done"
    /\ hexc = Exc("SystemExit", "view")
    /\ hcfg.exception = 2
    /\ hcalled.exception = <<>>
    /\ hcaught = <<>>
    /\ hcount.signal = 0
    /\ hcount.uncaught = 0

\* C10: for an exception other than Http404, PermissionDenied,
\* SuspiciousOperation and SystemExit that leaves the pipeline, the
\* got_request_exception signal is sent exactly once, and before the base
\* handler's handle_uncaught_exception() is called.
C10_SignalOnceBeforeUncaught ==
    /\ hcount.signal = Cardinality(Positions("got_request_exception"))
    /\ hcount.uncaught = Cardinality(Positions("handle_uncaught_exception"))
    /\ \A i \in DOMAIN hcaught :
        LET c == hcaught[i] IN
        (c.exc.kind \notin MappedKinds \cup {"SystemExit"}
                /\ c.by # "exception_middleware")
            => /\ c.by = "get_response"
               /\ hcount.signal = 1
               /\ hcount.uncaught <= 1
               /\ hpc = "done" => hcount.uncaught = 1
               /\ \A u \in Positions("handle_uncaught_exception") :
                    \E g \in Positions("got_request_exception") : g < u
    /\ (hexc.kind = "Exception" /\ hpc \notin {"exception_middleware"})
        => hpc \in {"generate_response_except", "get_response_except"}

\* The view raised an exception no exception middleware answered: the
\* signal was sent once, then the base handler produced the response.
C10_Witness ==
    /\ hpc = "done"
    /\ hcaught = <<[exc |-> Exc("Exception", "view"), by |-> "get_response"]>>
    /\ hcount.signal = 1
    /\ hcount.uncaught = 1
    /\ Len(hlog) >= 2
    /\ hlog[Len(hlog) - 1] = "got_request_exception"
    /\ hlog[Len(hlog)] = "handle_uncaught_exception"
    /\ hresp.origin = "handle_uncaught_exception"

\* C11: get_resolver_match() is called at most once per request; every
\* resolve_view() on the request, from whatever stage, returns the one triple
\* cached on the request.
C11_ResolverMatchCachedOnce ==
    /\ hcount.resolve <= 1
    /\ \A i \in DOMAIN hreq.returned :
        /\ hreq.returned[i] = hreq.returned[1]
        /\ hreq.returned[i] = hreq.resolver_match
        /\ hreq.returned[i].id = 1
    /\ hreq.returned # <<>> => hcount.resolve = 1

\* The view returned None: apply_view_middleware(), apply_view() and
\* validate_response() each asked for the match, the resolver was asked once.
C11_Witness ==
    /\ hpc = "done"
    /\ Len(hreq.returned) = 3
    /\ hcount.resolve = 1
    /\ hcount.view = 1
    /\ hreq.resolver_match.id = 1

\* The exceptions of the request so far: the one propagating and the ones
\* caught.
RequestExceptions ==
    {hexc} \cup {hcaught[i].exc : i \in DOMAIN hcaught}

\* C12: when the initial response is falsy, validate_response() fails with
\* an error whose message contains the name identifying the view: the
\* function's name, or ClassName.__call__ for an instance of a class.
C12_FalsyResponseNamesView ==
    \A e \in RequestExceptions :
        e.stage = "validate_response"
            => \E k \in DOMAIN e.message :
                    e.message[k] = ViewName(hreq.resolver_match.view)

\* The view returned None and get_response() is over: the error handed to
\* handle_uncaught_exception() is the NameError for the name types.
C12_Witness ==
    /\ hpc = "done"
    /\ hcount.view = 1
    /\ hcaught = <<[exc |-> Error("NameError",
                                  <<"global name 'types' is not defined">>,
                                  "validate_response"),
                    by |-> "get_response"]>>
    /\ hresp.origin = "handle_uncaught_exception"

\* The responses made by the stages of view_response().
EarlyOrigins ==
    {"request_middleware", "view_middleware", "view", "exception_middleware"}

\* The calls of a phase that returned a response.
Returned(phase) ==
    {i \in DOMAIN hcalled[phase] : hcalled[phase][i] = "response"}

AllReturned(phase) ==
    /\ Len(hcalled[phase]) = hcfg[phase]
    /\ Returned(phase) = DOMAIN hcalled[phase]

\* C31 as stated: for every response of the earlier stages, every entry of
\* the template-response list and every entry of the response list is
\* called once, in order.
C31_AllEntriesAlways ==
    (hpc = "done" /\ hexc = NoExc /\ hresp.origin \in EarlyOrigins) =>
        /\ AllReturned("template_response")
        /\ AllReturned("response")
        /\ hresp.tpl = hcfg.template_response
        /\ hresp.mw = hcfg.response

\* C31: neither phase stops at a response an entry returns; only an entry
\* that raises ends a phase early.  A response of view_response() that has
\* a render() method passes through every template-response entry in
\* order, each receiving the response of the one before, and is rendered;
\* one without render() passes through none.  Every response
\* generate_response() returns passes through every response entry in
\* order before the response fixes.
C31_NoShortCircuit ==
    /\ \A phase \in {"template_response", "response"} :
        \A i \in DOMAIN hcalled[phase] :
            hcalled[phase][i] # "response" => i = Len(hcalled[phase])
    /\ hresp.origin \in EarlyOrigins =>
        /\ hresp.tpl = Cardinality(Returned("template_response"))
        /\ ~hresp.render => hcalled.template_response = <<>>
    /\ hresp.rendered =>
        (AllReturned("template_response")
            /\ hresp.tpl = hcfg.template_response)
    /\ hresp.origin \notin {"None", "handle_uncaught_exception"} =>
        hresp.mw = Cardinality(Returned("response"))
    /\ hresp.fixed =>
        (AllReturned("response") /\ hresp.mw = hcfg.response)

\* A response with render() has passed through both entries of each list.
C31_Witness ==
    /\ hpc = "done"
    /\ hcfg.template_response = 2
    /\ hcfg.response = 2
    /\ hresp.origin \in EarlyOrigins
    /\ hresp.rendered
    /\ hresp.tpl = 2
    /\ hresp.mw = 2
    /\ hresp.fixed

\* get_response() runs in one thread of control: whenever it has a next
\* step, it takes it; the server hands the handler the next request.
SpecHandlerLive ==
    InitHandler /\ [][NextHandler]_vars /\ WF_vars(NextHandler)

\* get_response() has ended with a response, or with SystemExit raised
\* again.
Completed ==
    /\ hpc = "done"
    /\ \/ hexc = NoExc /\ hresp # HNone
       \/ hexc.kind = "SystemExit"

CaughtAt(stage) == {i \in DOMAIN hcaught : hcaught[i].exc.stage = stage}
PropagatingAt(stage) == hexc # NoExc /\ hexc.stage = stage

\* C35: an Exception raised by the view is offered to the exception
\* middleware in order.  The first response an entry returns becomes the
\* view's response: no later entry is called, and the exception reaches
\* neither the 404/403/400 mapping nor the uncaught-exception handler.  When
\* every entry returns None the view's exception is raised again.  An
\* exception raised by a request or view middleware is never offered.
C35_ExceptionMiddleware ==
    /\ \A i \in DOMAIN hcalled.exception :
        hcalled.exception[i] # "None" => i = Len(hcalled.exception)
    /\ hcalled.exception # <<>> =>
        /\ hcount.view = 1
        /\ Positions("exception_middleware") # {}
        /\ CaughtAt("request_middleware") = {}
        /\ CaughtAt("view_middleware") = {}
        /\ ~PropagatingAt("request_middleware")
        /\ ~PropagatingAt("view_middleware")
    /\ (\E i \in DOMAIN hcalled.exception :
            hcalled.exception[i] = "response") =>
        /\ ~PropagatingAt("view")
        /\ \E i \in DOMAIN hcaught :
            /\ CaughtAt("view") = {i}
            /\ hcaught[i].by = "exception_middleware"
        /\ hpc \in {"validate_response", "template_response_middleware"}
            => hresp.origin = "exception_middleware"
    /\ (Positions("exception_middleware") # {}
            /\ hpc # "exception_middleware"
            /\ hcalled.exception = [i \in 1..hcfg.exception |-> "None"]) =>
        \/ PropagatingAt("view")
        \/ \E i \in CaughtAt("view") :
            hcaught[i].by \in {"generate_response", "get_response"}
    /\ \A i \in CaughtAt("view") :
        (IsException(hcaught[i].exc.kind)
            /\ hcaught[i].by # "exception_middleware") =>
            hcalled.exception = [j \in 1..hcfg.exception |-> "None"]

\* The first of two exception middleware returned a response for the view's
\* exception: the second was not called and no signal was sent.
C35_Witness ==
    /\ hpc = "done"
    /\ hcfg.exception = 2
    /\ hcalled.exception = <<"response">>
    /\ hresp.origin = "exception_middleware"
    /\ hresp.fixed
    /\ hcount.signal = 0

\* C36: when a request middleware returns a response, the view is not
\* resolved for the request (get_resolver_match() is not called and no match
\* is cached, so an unmatched path gives no Http404), and neither the view
\* middleware nor the view is called.
C36_RequestResponseSkipsView ==
    (\E i \in DOMAIN hcalled.request : hcalled.request[i] = "response") =>
        /\ hcount.resolve = 0
        /\ hreq.resolver_match = NoMatch
        /\ hreq.returned = <<>>
        /\ Positions("resolve_view") = {}
        /\ CaughtAt("resolve_view") = {}
        /\ ~PropagatingAt("resolve_view")
        /\ hcalled.view = <<>>
        /\ hcount.view = 0

\* A request whose path matches no pattern has ended with the response of a
\* request middleware.
C36_Witness ==
    /\ hpc = "done"
    /\ ~hreq.resolves
    /\ hresp.origin = "request_middleware"
    /\ hresp.fixed
    /\ hcaught = <<>>

\* The responses generate_response() returns: those of view_response() and
\* those of the 404, 403 and 400 handlers.
GeneratedOrigins ==
    EarlyOrigins \cup
    {"resolve404", "technical_404_response", "resolve403", "resolve400"}

\* C37: every response get_response() returns that came from
\* generate_response() has passed through every response middleware and the
\* response fixes; the response of the uncaught-exception handler has passed
\* through neither; an Exception raised by a response middleware is caught
\* by get_response() and the request ends with the response of the
\* uncaught-exception handler.
C37_ResponsePhaseCoverage ==
    /\ (hpc = "done" /\ hexc = NoExc /\ hresp.origin \in GeneratedOrigins) =>
        /\ hresp.mw = hcfg.response
        /\ AllReturned("response")
        /\ hresp.fixed
    /\ hresp.origin = "handle_uncaught_exception" =>
        /\ hresp.mw = 0
        /\ ~hresp.fixed
        /\ hpc = "done"
    /\ \A i \in CaughtAt("response_middleware") :
        /\ hcaught[i].by = "get_response"
        /\ hpc = "done" => hresp.origin = "handle_uncaught_exception"
    /\ (hpc = "done" /\ hexc = NoExc) =>
        hresp.origin \in GeneratedOrigins \cup {"handle_uncaught_exception"}

\* The second response middleware raised: the request ended with the
\* response of the uncaught-exception handler, untouched by middleware and
\* fixes.
C37_Witness ==
    /\ hpc = "done"
    /\ hcalled.response = <<"response", "raise">>
    /\ hresp.origin = "handle_uncaught_exception"
    /\ hresp.mw = 0
    /\ ~hresp.fixed

----------------------------------------------------------------------------
(* Requests served by two threads of one Handler. *)

InitThreads ==
    /\ ucall = NoCall
    /\ ThreadsIdle
    /\ ViewIdle
    /\ HandlerIdle
    /\ hcfg = NoMiddleware
    /\ settings \in [LOGIN_URL : {Relative("login")}, DEBUG : {FALSE}]

\* A thread takes a request: get_response() calls get_resolver().
ThreadGetResolver ==
    \E t \in Threads, rq \in ThreadRequests :
        /\ threads[t].pc = "idle"
        /\ threads' = [threads EXCEPT
                ![t] = thread_get_resolver(rq, urlconfs, t).thread]
        /\ urlconfs' = thread_get_resolver(rq, urlconfs, t).urlconfs
        /\ UNCHANGED <<vvars, hvars, settings, ucall>>

ThreadRequestMiddleware ==
    \E t \in Threads :
        /\ threads[t].pc = "request_middleware"
        /\ threads' = [threads EXCEPT
                ![t] = thread_request_middleware(threads[t])]
        /\ UNCHANGED <<urlconfs, vvars, hvars, settings, ucall>>

ThreadResolveView ==
    \E t \in Threads :
        /\ threads[t].pc = "resolve_view"
        /\ threads' = [threads EXCEPT
                ![t] = thread_resolve_view(threads[t])]
        /\ UNCHANGED <<urlconfs, vvars, hvars, settings, ucall>>

ThreadApplyView ==
    \E t \in Threads :
        /\ threads[t].pc = "view"
        /\ threads' = [threads EXCEPT
                ![t] = thread_apply_view(threads[t], urlconfs, t)]
        /\ UNCHANGED <<urlconfs, vvars, hvars, settings, ucall>>

\* get_response() returns; the urlconf stored for the thread stays.
ThreadReturn ==
    \E t \in Threads :
        /\ threads[t].pc = "done"
        /\ threads' = [threads EXCEPT ![t] = ThreadIdle]
        /\ UNCHANGED <<urlconfs, vvars, hvars, settings, ucall>>

NextThreads ==
    \/ ThreadGetResolver
    \/ ThreadRequestMiddleware
    \/ ThreadResolveView
    \/ ThreadApplyView
    \/ ThreadReturn

SpecThreads == InitThreads /\ [][NextThreads]_vars

\* C33: whatever the interleaving of two requests served by the threads of
\* one Handler, each request ends with the response, the cached resolver
\* match and the resolver it has when served alone, and throughout the
\* request the urlconf of its thread, under which the login URL is
\* reversed, is the one it has when served alone.
C33_RequestsIndependent ==
    \A t \in Threads :
        LET alone == get_response_alone(threads[t].input)
        IN  /\ threads[t].pc # "idle" =>
                /\ threads[t].resolver = alone.resolver
                /\ get_urlconf(urlconfs, t) = alone.resolver
            /\ threads[t].pc = "done" =>
                /\ threads[t].response = alone.response
                /\ threads[t].resolver_match = alone.resolver_match
                /\ threads[t].urlconf = alone.urlconf

\* While the second thread serves a request under the root urlconf, the
\* first has redirected its request to the login URL of the request's own
\* urlconf.
C33_Witness ==
    /\ threads["t1"].pc = "done"
    /\ threads["t1"].input.urlconf = RequestUrlconf
    /\ threads["t1"].response =
            [status |-> 302, from |-> reverse_in(RequestUrlconf, "login")]
    /\ threads["t2"].pc = "view"
    /\ threads["t2"].input.urlconf = "None"
    /\ threads["t2"].resolver_match = <<ROOT_URLCONF, "page">>

\* The urlconf attribute of the request of a thread, with the fallback.
RequestUrlconfNow(t) ==
    IF threads[t].urlconf = "None" THEN ROOT_URLCONF ELSE threads[t].urlconf

\* C34 as stated: the view and the 404, 403 and 400 handlers are resolved
\* against the urlconf attribute the request has when the view is resolved,
\* a request middleware having set it or not, and against ROOT_URLCONF only
\* when the request has none.
C34_ResolverOfRequestUrlconf ==
    \A t \in Threads :
        threads[t].pc \in {"view", "done"} =>
            /\ threads[t].resolver = RequestUrlconfNow(t)
            /\ threads[t].resolver_match # <<>> =>
                threads[t].resolver_match[1] = RequestUrlconfNow(t)
            /\ threads[t].response.status \in {404, 403, 400} =>
                threads[t].response.from[1] = RequestUrlconfNow(t)

\* A request whose urlconf a request middleware set was answered by the
\* view of the root urlconf.
C34_Witness ==
    /\ threads["t1"].pc = "done"
    /\ threads["t1"].input.urlconf = "None"
    /\ threads["t1"].urlconf = MiddlewareUrlconf
    /\ threads["t1"].response =
            [status |-> 200, from |-> <<ROOT_URLCONF, "page">>]

----------------------------------------------------------------------------
(* daydreamer.core.urlresolvers.simplify_redirect, called on its own and
   called again on its result. *)

\* The redirect arguments: absolute on two hosts and schemes, relative,
\* relative with a "?" in front of an empty query, with a query, and the
\* string "//testserver//testserver/next/" (no scheme, host testserver, path
\* "//testserver/next/").
SimplifyRedirects ==
    {Url("http", "testserver", "/next/", <<>>),
     Url("https", "testserver", "/next/", <<>>),
     Url("https", "sso.example.com", "/next/", <<>>),
     Url("http", "testserver", "/next/",
         <<[name |-> "page", value |-> Relative("2")]>>),
     Relative("/next/"),
     UrlString("", "", "/next/", <<>>, {"?"}),
     Url("", "testserver", "/next/", <<>>),
     Url("", "testserver", "//testserver/next/", <<>>)}

\* The source arguments: relative, absolute, and without a scheme.
SimplifySources ==
    {Relative("/login/"),
     Url("http", "testserver", "/login/", <<>>),
     Url("https", "sso.example.com", "/login/", <<>>),
     Url("", "testserver", "/login/", <<>>)}

\* The request arguments: None, and a request on testserver over http or
\* https.
SimplifyRequests == {NoRequest} \cup UrlRequests

InitUrl ==
    /\ ucall \in [redirect : SimplifyRedirects, source : SimplifySources,
                  request : SimplifyRequests, results : {<<>>}]
    /\ ThreadsIdle
    /\ ViewIdle
    /\ HandlerIdle
    /\ hcfg = NoMiddleware
    /\ settings \in [LOGIN_URL : {Relative("/accounts/login/")},
                     DEBUG : {FALSE}]

\* simplify_redirect(redirect, source, request)
Simplify ==
    /\ ucall.results = <<>>
    /\ ucall' = [ucall EXCEPT !.results =
            <<simplify_redirect(ucall.redirect, ucall.source,
                                ucall.request)>>]
    /\ UNCHANGED <<vvars, hvars, settings, tvars>>

\* simplify_redirect(simplified, source, request), with the result of the
\* first call.
SimplifyAgain ==
    /\ Len(ucall.results) = 1
    /\ ucall' = [ucall EXCEPT !.results =
            Append(@, simplify_redirect(ucall.results[1], ucall.source,
                                        ucall.request))]
    /\ UNCHANGED <<vvars, hvars, settings, tvars>>

NextUrl == Simplify \/ SimplifyAgain

SpecUrl == InitUrl /\ [][NextUrl]_vars

\* C19: simplify_redirect strips the scheme and host from a URL that shares
\* them with the source, returns a relative URL as it was given, and called
\* again on its result with the same source and request returns that result.
C19_SimplifyRedirect ==
    (ucall.results # <<>>) =>
        /\ (Origin(ucall.redirect) # <<"", "">>
                /\ Origin(ucall.redirect) = Origin(ucall.source))
            => ucall.results[1] = Stripped(ucall.redirect)
        /\ Origin(ucall.redirect) = <<"", "">>
            => ucall.results[1] = ucall.redirect
        /\ Len(ucall.results) = 2
            => ucall.results[2] = ucall.results[1]

\* "//testserver//testserver/next/" simplified against "//testserver/login/"
\* gave "//testserver/next/", and that simplified again gave "/next/".
C19_Witness ==
    /\ ucall.redirect = Url("", "testserver", "//testserver/next/", <<>>)
    /\ ucall.source = Url("", "testserver", "/login/", <<>>)
    /\ ucall.results = <<Url("", "testserver", "/next/", <<>>),
                         Relative("/next/")>>

====
